---- MODULE Spec2Model ----
(***************************************************************************)
(* A model of dstreet/interstate: leader and follower nodes replicating a *)
(* versioned state over a unix domain socket, and the supervisor (State)  *)
(* that acquires a role for each process.                                 *)
(*                                                                         *)
(* Every process p owns a leader datastore lds[p] and a follower          *)
(* datastore fds[p] (memory.Datastore).  A follower node of process f     *)
(* owns one connection, so connections are indexed by the follower:       *)
(* toF[f] holds the frames written by the leader and not yet read by f's  *)
(* reader goroutine, toL[f] the frames written by f and not yet read by   *)
(* the leader's client reader.  Goroutines are interleaved at the points  *)
(* where they touch shared state (datastore, client map, sockets,         *)
(* channels).                                                              *)
(***************************************************************************)
EXTENDS Integers, Sequences, FiniteSets, TLC

\* ------------------------------------------------------------------ bounds
NProcs == 3
MaxOps == 2
MaxFaults == 1

\* The longest frame looked at, in bytes: header, tag, fixed fields, data.
MaxFrameLen == 30

\* Numbers read from bytes are told apart below this one.
MaxUint == 16777216

\* ------------------------------------------------------- program constants
MaxAttempts == 10
ResponseErrorNone == 0
ResponseErrorMismatchedVersion == 1
ResponseErrorWriteFailed == 2
InitialRequestID == 1
FileVersion == 1
FileVersionHeaderFieldSize == 2
OffsetHeaderFieldSize == 8
NextOffsetHeaderFieldSize == 8
VersionHeaderFieldSize == 8
FileVersionHeaderPos == 0
OffsetHeaderPos == 2
NextOffsetHeaderPos == 10
VersionHeaderPos == 18
HeaderSize == 26

Procs == 1..NProcs
\* No process: the socket path has no entry, the accept loop holds no
\* connection, a write has no originating client (excludeClients is nil).
NoProc == 0
\* The process whose caller constructs the leader node.
LeaderProc == CHOOSE p \in Procs : \A q \in Procs : p <= q
\* The process singled out where a scenario is about one follower or one
\* supervisor: the next one.
FollowerProc == LeaderProc + 1
\* Every Write call carries its own data: the ordinal of the call.  The code
\* never inspects the bytes, so distinct payloads are the general case.
Data == 1..MaxOps
Nil == 0
Versions == 0..MaxOps
\* No Version handle has been obtained.
NoVersion == -1

VARIABLES
  alive,          \* the process runs
  sup,            \* State: "none" (nodes used directly), "new", "opening", "open", "resetting", "failed", "errored"
  supClosed,      \* State.closed
  pc,             \* position of the thread running a node constructor
  attempts,       \* initNodeWithRetry's loop counter
  node,           \* the node the process holds: "none", "leader", "follower"
  sockFile,       \* the rendezvous path: NoProc, or the process whose bind created the entry
  listening,      \* the process's listener is open
  lds, fds,       \* leader / follower datastore: [v, d]
  backlog,        \* connections dialled and not yet accepted, per listener
  clients,        \* LeaderNode.clients (keys: the follower of the connection)
  acc,            \* accept loop: NoProc in Accept, else the connection handleConnection is registering
  lrd,            \* client reader goroutine of connection f on the leader: "none", "run", "exited"
  ser,            \* syncRequests / handleClientRequest
  lw,             \* a LeaderNode.Write call
  peer,           \* the leader process a follower's connection goes to
  toL, toF,       \* frames in flight on connection f
  connL, connF,   \* connection f is open on the leader's / the follower's side
  frd,            \* follower reader goroutine: "none", "run", "exited" (closeChan closed)
  ready,          \* FollowerNode.ready
  requests,       \* FollowerNode.requests (the registered request ids)
  nextRequestID,  \* FollowerNode.nextRequestID
  fw,             \* a FollowerNode.Write call
  wlog,           \* history: the writes a leader's datastore accepted, in Put order
  sent,           \* history: every frame a leader wrote on connection f
  applied,        \* history: every frame f's reader handled
  notified,       \* history: the Versions a node handed to its watchers
  boot,           \* history: what the constructor of f's node observed
  nOps,           \* Write calls so far
  nFaults,        \* Close calls on nodes used directly and killed processes so far
  watchers,       \* State.watchers: the channels State.Watch has made
  watchChannels,  \* the watchChannels of the node the process holds
  watching,       \* positions of a State.Watch call and of initNode's loop over s.watchers
  dsOpen,         \* the process's leader datastore: Open has been called and Close has not
  handle,         \* the Version handle the caller holds: its version, or NoVersion
  aof,            \* an appendonly.Datastore, its file, and the calls in progress on it
  wire,           \* a message, its frame on a byte stream, and what the reader made of it
  kv,             \* a Store directory: the lock file and the data file of one key, and the tasks' Updaters
  calls           \* one FollowerNode with Write called by several goroutines at once

procVars == <<alive, sup, supClosed, pc, attempts, node>>
sockVars == <<sockFile, listening, backlog>>
dsVars == <<lds, fds>>
leadVars == <<clients, acc, lrd, ser, lw>>
connVars == <<peer, toL, toF, connL, connF>>
follVars == <<frd, ready, requests, nextRequestID, fw>>
histVars == <<wlog, sent, applied, notified, boot>>
cntVars == <<nOps, nFaults>>
watchVars == <<watchers, watchChannels, watching>>
extVars == <<dsOpen, handle, aof, wire, kv, calls>>
vars == <<procVars, sockVars, dsVars, leadVars, connVars, follVars, histVars, cntVars, watchVars, extVars>>

\* ------------------------------------------------------------------ frames
VersionUpdateMessage(v, d, w) == [t |-> "VU", id |-> 0, err |-> 0, v |-> v, d |-> d, w |-> w]
UpdateResponse(id, err, v, d) == [t |-> "UR", id |-> id, err |-> err, v |-> v, d |-> d, w |-> 0]
UpdateRequest(id, v, d) == [t |-> "REQ", id |-> id, err |-> 0, v |-> v, d |-> d, w |-> 0]

\* ---------------------------------------------------------------- records
EmptyStore == [v |-> 0, d |-> Nil]
IdleSer == [pc |-> "idle", client |-> NoProc, id |-> 0, v |-> 0, d |-> Nil,
            cur |-> 0, rv |-> 0, rd |-> Nil, err |-> "", w |-> 0]
IdleWrite == [pc |-> "idle", id |-> 0, v |-> 0, d |-> Nil,
              cur |-> 0, rv |-> 0, err |-> "", w |-> 0]
\* The Write call rec has returned err (and, from write, the version rv).
Done(rec, err, rv) == [rec EXCEPT !.pc = "done", !.err = err, !.rv = rv]
\* What a follower's constructor saw: the leader's (lv, ld) and the number n of
\* accepted writes when the connection was accepted, the first VersionUpdate
\* put (got, v, d), and Version()/Data() when it returned (returned, retv, retd).
\* No Watch call in progress (call: "idle", "node", "store"; ch its channel,
\* ctmp the list it read), no loop over s.watchers (todo: the channels left,
\* lch the one being appended, ltmp the list read for it).
\* No appendonly.Datastore is in use.
NoAof == [open |-> FALSE]
\* No byte stream is looked at.  Otherwise: the message m, the bytes on the
\* stream (cut: the stream ended inside the frame), the body the frame reader
\* handed on, the decoder applied (as), its outcome res ("ok", "error", or
\* "panic": a slice out of range) and the message it produced (out).
NoWire == [at |-> "none", m |-> <<>>, stream |-> <<>>, cut |-> FALSE, body |-> <<>>,
           as |-> "", res |-> "", out |-> <<>>]
\* NewStore(dir) and Store.Open over an empty directory, seen through one key:
\* lock: the key's lock file exists; data: the contents of the key's data
\* file, Nil when there is none; u: per task, the Updater it holds (pc: "none",
\* "create" inside Store.Updater between tryLock and os.Create, "held" with
\* unlocked false, "closed" with unlocked true) and the call of it that
\* returned last (op) with its error (err).
NewStore == [lock |-> FALSE, data |-> Nil,
             u |-> [t \in Procs |-> [pc |-> "none", op |-> "none", err |-> ""]]]
\* A connected FollowerNode none of whose callers is in Write: nextRequestID,
\* requests (per request id the task whose channel is registered, or NoProc),
\* per task its Write call (pc; id: ur.RequestID; res: the response it
\* received), and the frames in flight, each with its request id and the task
\* whose request it is or answers (of).
IdleCalls ==
  [nextRequestID |-> InitialRequestID,
   requests |-> [i \in 1..NProcs |-> NoProc],
   w |-> [t \in Procs |-> [pc |-> "idle", id |-> 0, res |-> [id |-> 0, of |-> NoProc]]],
   toL |-> <<>>, toF |-> <<>>]
IdleWatch == [call |-> "idle", ch |-> 0, ctmp |-> {}, todo |-> {}, lch |-> 0, ltmp |-> {}]
NoBoot == [lv |-> 0, ld |-> Nil, n |-> 0, got |-> FALSE, v |-> 0, d |-> Nil,
           retv |-> 0, retd |-> Nil, returned |-> FALSE]

\* Nothing is constructed yet: fresh datastores, no socket file.
Start ==
  /\ alive = [p \in Procs |-> TRUE]
  /\ supClosed = [p \in Procs |-> FALSE]
  /\ attempts = [p \in Procs |-> 0]
  /\ node = [p \in Procs |-> "none"]
  /\ sockFile = NoProc
  /\ listening = [p \in Procs |-> FALSE]
  /\ lds = [p \in Procs |-> EmptyStore]
  /\ fds = [p \in Procs |-> EmptyStore]
  /\ backlog = [p \in Procs |-> <<>>]
  /\ clients = [p \in Procs |-> {}]
  /\ acc = [p \in Procs |-> NoProc]
  /\ lrd = [p \in Procs |-> "none"]
  /\ ser = [p \in Procs |-> IdleSer]
  /\ lw = [p \in Procs |-> IdleWrite]
  /\ peer = [p \in Procs |-> NoProc]
  /\ toL = [p \in Procs |-> <<>>]
  /\ toF = [p \in Procs |-> <<>>]
  /\ connL = [p \in Procs |-> FALSE]
  /\ connF = [p \in Procs |-> FALSE]
  /\ frd = [p \in Procs |-> "none"]
  /\ ready = [p \in Procs |-> FALSE]
  /\ requests = [p \in Procs |-> {}]
  /\ nextRequestID = [p \in Procs |-> InitialRequestID]
  /\ fw = [p \in Procs |-> IdleWrite]
  /\ wlog = <<>>
  /\ sent = [p \in Procs |-> <<>>]
  /\ applied = [p \in Procs |-> <<>>]
  /\ notified = [p \in Procs |-> <<>>]
  /\ boot = [p \in Procs |-> NoBoot]
  /\ nOps = 0
  /\ nFaults = 0
  /\ watchers = [p \in Procs |-> {}]
  /\ watchChannels = [p \in Procs |-> {}]
  /\ watching = [p \in Procs |-> IdleWatch]
  /\ dsOpen = [p \in Procs |-> FALSE]
  /\ handle = [p \in Procs |-> NoVersion]

\* The nodes run over memory.Datastore and their frames are whole: no
\* appendonly.Datastore is in use and no byte stream is looked at.
NoStore == aof = NoAof /\ wire = NoWire /\ kv = NewStore /\ calls = IdleCalls

\* Nodes used directly: the caller of process LeaderProc is in NewLeaderNode,
\* the callers of the other processes are in NewFollowerNode.
Init ==
  /\ Start /\ NoStore
  /\ sup = [p \in Procs |-> "none"]
  /\ pc = [p \in Procs |-> IF p = LeaderProc THEN "nl_check" ELSE "nf_dial"]

\* ----------------------------------------------------------------- helpers
Range(s) == {s[i] : i \in 1..Len(s)}

\* memory.Datastore: Get returns the stored pair, Put replaces it.
DsGet(ds) == ds
DsPut(ds, version, data) == [v |-> version, d |-> data]

\* fileExists(socket) for the rendezvous path.
fileExists == sockFile # NoProc

\* A frame written on connection f by the leader reaches f's socket buffer
\* while both ends are open; otherwise the kernel discards it.  sent keeps
\* every frame the leader wrote, delivered or not.
ConnUp(f) == connL[f] /\ connF[f]
Deliver(f, frame) == IF ConnUp(f) THEN Append(toF[f], frame) ELSE toF[f]
Record(f, frame) == Append(sent[f], frame)

\* The followers whose connection to leader l is open and has been accepted.
Connected(l) == {f \in Procs : peer[f] = l /\ ConnUp(f) /\ sent[f] # <<>>}

\* A version test that lets every write through.
AnyVersion(version, v) == TRUE
\* LeaderNode.write: the version test (version != v is the mismatch).
VersionMatches(version, v) == version = v
\* LeaderNode.write: version++.
NextVersion(version) == version + 1
\* A broadcast loop without the slices.Contains(excludeClients, k) test.
AllClients(l, excludeClients) == clients[l]
\* LeaderNode.write: the clients the broadcast loop writes to.
BroadcastTargets(l, excludeClients) == clients[l] \ excludeClients

\* A response that reports every error but the mismatch as success.
MismatchOrNone(err) ==
  IF err = "ErrVersionMismatch" THEN ResponseErrorMismatchedVersion ELSE ResponseErrorNone
\* handleClientRequest: the response code for write's error.
ResponseCode(err) ==
  IF err = "" THEN ResponseErrorNone
  ELSE IF err = "ErrVersionMismatch" THEN ResponseErrorMismatchedVersion
  ELSE ResponseErrorWriteFailed

\* A translation that takes every code but the mismatch for success.
MismatchOrSuccess(code) ==
  IF code = ResponseErrorMismatchedVersion THEN "ErrVersionMismatch" ELSE ""
\* FollowerNode.Write: the error for a response code.
WriteError(code) ==
  IF code = ResponseErrorNone THEN ""
  ELSE IF code = ResponseErrorMismatchedVersion THEN "ErrVersionMismatch"
  ELSE IF code = ResponseErrorWriteFailed THEN "ErrLeaderFailedToWrite"
  ELSE "unknown error"

\* What the kernel does when process p ends: its listener and every
\* connection end it holds are closed; the socket file stays.
ProcessDies(p) ==
  /\ alive' = [alive EXCEPT ![p] = FALSE]
  /\ listening' = [listening EXCEPT ![p] = FALSE]
  /\ backlog' = [backlog EXCEPT ![p] = <<>>]
  /\ connL' = [f \in Procs |-> IF peer[f] = p THEN FALSE ELSE connL[f]]
  /\ connF' = [connF EXCEPT ![p] = FALSE]

\* A retry loop without the attempts < 10 condition.
RetryWithoutLimit(p) ==
  IF sup[p] = "none"
  THEN UNCHANGED <<pc, attempts, sup>>
  ELSE /\ attempts' = [attempts EXCEPT ![p] = @ + 1]
       /\ pc' = [pc EXCEPT ![p] = "nl_check"]
       /\ UNCHANGED sup

\* initNodeWithRetry after a failed attempt: sleep, then the next attempt or
\* the "maximum number of attempts" error, which Open returns ("failed") and
\* the reset loop sends on errorCh ("errored").  Used directly (sup = "none"),
\* a constructor's error goes back to the caller, who calls it again.
FailAttempt(p) ==
  IF sup[p] = "none"
  THEN UNCHANGED <<pc, attempts, sup>>
  ELSE /\ attempts' = [attempts EXCEPT ![p] = @ + 1]
       /\ IF attempts[p] + 1 < MaxAttempts
          THEN /\ pc' = [pc EXCEPT ![p] = "nl_check"]
               /\ UNCHANGED sup
          ELSE /\ pc' = [pc EXCEPT ![p] = "idle"]
               /\ sup' = [sup EXCEPT ![p] = IF @ = "opening" THEN "failed" ELSE "errored"]

\* initNode after a constructor succeeded: s.n is set and Open / the reset returns.
Started(p) == [sup EXCEPT ![p] = IF @ \in {"opening", "resetting"} THEN "open" ELSE @]

\* initNode once a constructor has returned the node: s.n = node, then the
\* loop "for _, ch := range s.watchers { s.n.Watch(ch) }" and the return.  The
\* new node's watchChannels are empty; a Watch call that had read the old
\* node appends to that one.  Used directly, the caller just has the node.
EnterNode(p) ==
  /\ watchChannels' = [watchChannels EXCEPT ![p] = {}]
  /\ IF watchers[p] = {}
     THEN /\ pc' = [pc EXCEPT ![p] = "idle"]
          /\ sup' = Started(p)
          /\ UNCHANGED watching
     ELSE /\ pc' = [pc EXCEPT ![p] = "watch"]
          /\ watching' = [watching EXCEPT ![p].todo = watchers[p], ![p].lch = 0,
                                          ![p].call = IF @ = "store" THEN "idle" ELSE @]
          /\ UNCHANGED sup
  /\ UNCHANGED watchers

\* ----------------------------------------------------------- NewLeaderNode
\* A constructor that opens the datastore before it tests for the entry.
OpenBeforeCheck(p) ==
  /\ alive[p] /\ pc[p] = "nl_check"
  /\ dsOpen' = [dsOpen EXCEPT ![p] = TRUE]
  /\ IF fileExists
     THEN pc' = [pc EXCEPT ![p] = IF sup[p] = "none" THEN @ ELSE "nf_dial"]
     ELSE pc' = [pc EXCEPT ![p] = "nl_bind"]
  /\ UNCHANGED <<alive, sup, supClosed, attempts, node>>
  /\ UNCHANGED <<sockVars, dsVars, leadVars, connVars, follVars, histVars, cntVars, watchVars>>
  /\ UNCHANGED <<handle, aof, wire, kv, calls>>

\* The existence test: ErrLeaderAlreadyExists when the entry is there.
NewLeaderNodeCheck(p) ==
  /\ alive[p] /\ pc[p] = "nl_check"
  /\ IF fileExists
     THEN pc' = [pc EXCEPT ![p] = IF sup[p] = "none" THEN @ ELSE "nf_dial"]
     ELSE pc' = [pc EXCEPT ![p] = "nl_bind"]
  /\ UNCHANGED <<alive, sup, supClosed, attempts, node>>
  /\ UNCHANGED <<sockVars, dsVars, leadVars, connVars, follVars, histVars, cntVars, watchVars>>
  /\ UNCHANGED extVars

\* ds.Open, net.Listen, then the accept loop and the serializer start.  A
\* failed Listen returns with the datastore left open.
NewLeaderNodeBind(p) ==
  /\ alive[p] /\ pc[p] = "nl_bind"
  /\ dsOpen' = [dsOpen EXCEPT ![p] = TRUE]
  /\ IF fileExists
     THEN /\ FailAttempt(p)
          /\ UNCHANGED <<node, sockVars, leadVars, watchVars>>
     ELSE /\ sockFile' = p
          /\ listening' = [listening EXCEPT ![p] = TRUE]
          /\ node' = [node EXCEPT ![p] = "leader"]
          /\ clients' = [clients EXCEPT ![p] = {}]
          /\ acc' = [acc EXCEPT ![p] = NoProc]
          /\ ser' = [ser EXCEPT ![p] = IdleSer]
          /\ lw' = [lw EXCEPT ![p] = IdleWrite]
          /\ EnterNode(p)
          /\ UNCHANGED <<attempts, backlog, lrd>>
  /\ UNCHANGED <<alive, supClosed>>
  /\ UNCHANGED <<dsVars, connVars, follVars, histVars, cntVars>>
  /\ UNCHANGED <<handle, aof, wire, kv, calls>>

\* ds.Open or net.Listen fails for a reason other than the entry being there
\* (a datastore that cannot be opened, a path that cannot be bound): initNode
\* returns "failed to create leader node" and the attempt is over.  One
\* process runs over such a datastore.
NewLeaderNodeFails(p) ==
  /\ alive[p] /\ pc[p] = "nl_bind" /\ sup[p] # "none" /\ p = FollowerProc
  /\ FailAttempt(p)
  /\ UNCHANGED <<alive, supClosed, node>>
  /\ UNCHANGED <<sockVars, dsVars, leadVars, connVars, follVars, histVars, cntVars, watchVars>>
  /\ UNCHANGED extVars

\* --------------------------------------------------------- NewFollowerNode
\* net.Dial: no entry -> a dial error; an entry nobody listens on ->
\* ECONNREFUSED (ErrLeaderClosed); otherwise the connection is queued on the
\* listener, the node is built and its reader goroutine starts.
NewFollowerNodeDial(p) ==
  /\ alive[p] /\ pc[p] = "nf_dial"
  /\ IF ~fileExists
     THEN /\ FailAttempt(p)
          /\ UNCHANGED <<backlog, connVars, follVars, sent, applied, boot>>
     ELSE IF ~listening[sockFile]
     THEN /\ pc' = [pc EXCEPT ![p] = IF sup[p] = "none" THEN @ ELSE "remove"]
          /\ UNCHANGED <<attempts, sup, backlog, connVars, follVars, sent, applied, boot>>
     ELSE /\ backlog' = [backlog EXCEPT ![sockFile] = Append(@, p)]
          /\ peer' = [peer EXCEPT ![p] = sockFile]
          /\ toL' = [toL EXCEPT ![p] = <<>>]
          /\ toF' = [toF EXCEPT ![p] = <<>>]
          /\ connL' = [connL EXCEPT ![p] = TRUE]
          /\ connF' = [connF EXCEPT ![p] = TRUE]
          /\ frd' = [frd EXCEPT ![p] = "run"]
          /\ ready' = [ready EXCEPT ![p] = FALSE]
          /\ requests' = [requests EXCEPT ![p] = {}]
          /\ nextRequestID' = [nextRequestID EXCEPT ![p] = InitialRequestID]
          /\ fw' = [fw EXCEPT ![p] = IdleWrite]
          /\ sent' = [sent EXCEPT ![p] = <<>>]
          /\ applied' = [applied EXCEPT ![p] = <<>>]
          /\ boot' = [boot EXCEPT ![p] = NoBoot]
          /\ pc' = [pc EXCEPT ![p] = "nf_wait"]
          /\ UNCHANGED <<attempts, sup>>
  /\ UNCHANGED <<alive, supClosed, node, sockFile, listening>>
  /\ UNCHANGED <<dsVars, leadVars, wlog, notified, cntVars, watchVars>>
  /\ UNCHANGED extVars

\* A constructor that does not wait on readyChan.
NotWaiting(p) == TRUE
\* readyChan is closed: handleMessage has put the first VersionUpdate.
BootstrapApplied(p) == ready[p]

\* <-n.readyChan, then return n, closeChan, nil.
NewFollowerNodeReturn(p) ==
  /\ alive[p] /\ pc[p] = "nf_wait" /\ BootstrapApplied(p)
  /\ node' = [node EXCEPT ![p] = "follower"]
  /\ EnterNode(p)
  /\ boot' = [boot EXCEPT ![p].returned = TRUE, ![p].retv = DsGet(fds[p]).v,
                          ![p].retd = DsGet(fds[p]).d]
  /\ UNCHANGED <<alive, supClosed, attempts>>
  /\ UNCHANGED <<sockVars, dsVars, leadVars, connVars, follVars, wlog, sent, applied, notified, cntVars>>
  /\ UNCHANGED extVars

\* ------------------------------------------------- leader: connections
\* acceptClientConnections / handleConnection up to the bootstrap frame: read
\* (v, d) from the datastore and write VersionUpdate(v, d) on the connection.
\* A write on a connection the peer has already closed may or may not report
\* the error; on an error the connection is not registered.
AcceptConnection(l) ==
  /\ alive[l] /\ node[l] = "leader" /\ listening[l]
  /\ acc[l] = NoProc /\ backlog[l] # <<>>
  /\ LET f == Head(backlog[l])
         update == VersionUpdateMessage(DsGet(lds[l]).v, DsGet(lds[l]).d, 0)
     IN /\ backlog' = [backlog EXCEPT ![l] = Tail(@)]
        /\ toF' = [toF EXCEPT ![f] = Deliver(f, update)]
        /\ sent' = [sent EXCEPT ![f] = Record(f, update)]
        /\ boot' = [boot EXCEPT ![f].lv = DsGet(lds[l]).v, ![f].ld = DsGet(lds[l]).d,
                                ![f].n = Len(wlog)]
        /\ IF ConnUp(f)
           THEN acc' = [acc EXCEPT ![l] = f]
           ELSE \E ok \in BOOLEAN : acc' = [acc EXCEPT ![l] = IF ok THEN f ELSE NoProc]
  /\ UNCHANGED <<procVars, sockFile, listening, dsVars, clients, lrd, ser, lw>>
  /\ UNCHANGED <<peer, toL, connL, connF, follVars, wlog, applied, notified, cntVars, watchVars>>
  /\ UNCHANGED extVars

\* handleConnection, the rest: n.clients[id] = conn and the reader goroutine.
RegisterClient(l) ==
  /\ alive[l] /\ node[l] = "leader" /\ acc[l] # NoProc
  /\ clients' = [clients EXCEPT ![l] = @ \cup {acc[l]}]
  /\ lrd' = [lrd EXCEPT ![acc[l]] = "run"]
  /\ acc' = [acc EXCEPT ![l] = NoProc]
  /\ UNCHANGED <<procVars, sockVars, dsVars, ser, lw, connVars, follVars, histVars, cntVars, watchVars>>
  /\ UNCHANGED extVars

\* The client reader at EOF: delete(n.clients, id), then the deferred conn.Close().
ClientReaderExit(l, f) ==
  /\ alive[l] /\ node[l] = "leader" /\ lrd[f] = "run" /\ peer[f] = l
  /\ toL[f] = <<>> /\ ~connF[f]
  /\ lrd' = [lrd EXCEPT ![f] = "exited"]
  /\ clients' = [clients EXCEPT ![l] = @ \ {f}]
  /\ connL' = [connL EXCEPT ![f] = FALSE]
  /\ UNCHANGED <<procVars, sockVars, dsVars, acc, ser, lw>>
  /\ UNCHANGED <<peer, toL, toF, connF, follVars, histVars, cntVars, watchVars>>
  /\ UNCHANGED extVars

\* ------------------------------------------------------ leader: write
\* LeaderNode.write, first part (lines 232-239): read the version and compare.
\* The result is the writer's record: on a mismatch (v, nil, ErrVersionMismatch).
WriteCheck(rec, l) ==
  LET v == DsGet(lds[l]).v
  IN IF VersionMatches(rec.v, v)
     THEN [rec EXCEPT !.pc = "put", !.cur = v]
     ELSE [rec EXCEPT !.pc = "ret", !.cur = v, !.rv = v, !.err = "ErrVersionMismatch"]

\* LeaderNode.write, version++ and ds.Put (lines 241-245).  wlog records the
\* accepted write: the pair stored, the expected version, the client whose
\* request it was (origin, NoProc: local) with its request id, and the
\* followers connected at that moment (up).
WritePut(rec, l, origin) ==
  /\ lds' = [lds EXCEPT ![l] = DsPut(@, NextVersion(rec.v), rec.d)]
  /\ wlog' = Append(wlog, [l |-> l, v |-> NextVersion(rec.v), d |-> rec.d,
                           exp |-> rec.v, origin |-> origin, id |-> rec.id,
                           up |-> Connected(l), conn |-> {}, cast |-> FALSE])

\* LeaderNode.write, the broadcast (lines 247-267): VersionUpdate(version, data)
\* to every client not excluded; write errors are ignored.  wlog keeps the
\* client map the loop ranged over (conn).
WriteBroadcast(rec, l, excludeClients) ==
  LET update == VersionUpdateMessage(NextVersion(rec.v), rec.d, rec.w)
      to == BroadcastTargets(l, excludeClients)
  IN /\ toF' = [f \in Procs |-> IF f \in to THEN Deliver(f, update) ELSE toF[f]]
     /\ sent' = [f \in Procs |-> IF f \in to THEN Record(f, update) ELSE sent[f]]
     /\ wlog' = [wlog EXCEPT ![rec.w].conn = clients[l], ![rec.w].cast = TRUE]

\* syncRequests receives the next request from a client reader (n.requests is
\* unbuffered, so a reader hands over its frame when the serializer is free);
\* handleClientRequest decodes it and enters write.
HandleClientRequest(l, f) ==
  /\ alive[l] /\ node[l] = "leader" /\ lrd[f] = "run" /\ peer[f] = l
  /\ toL[f] # <<>> /\ ser[l].pc = "idle"
  /\ LET req == Head(toL[f])
     IN ser' = [ser EXCEPT ![l] =
                  WriteCheck([IdleSer EXCEPT !.client = f, !.id = req.id,
                                             !.v = req.v, !.d = req.d], l)]
  /\ toL' = [toL EXCEPT ![f] = Tail(@)]
  /\ UNCHANGED <<procVars, sockVars, dsVars, clients, acc, lrd, lw>>
  /\ UNCHANGED <<peer, toF, connL, connF, follVars, histVars, cntVars, watchVars>>
  /\ UNCHANGED extVars

SerializerPut(l) ==
  /\ alive[l] /\ ser[l].pc = "put"
  /\ WritePut(ser[l], l, ser[l].client)
  /\ ser' = [ser EXCEPT ![l].pc = "bcast", ![l].w = Len(wlog) + 1]
  /\ UNCHANGED <<procVars, sockVars, fds, clients, acc, lrd, lw>>
  /\ UNCHANGED <<connVars, follVars, sent, applied, notified, boot, cntVars, watchVars>>
  /\ UNCHANGED extVars

SerializerBroadcast(l) ==
  /\ alive[l] /\ ser[l].pc = "bcast"
  /\ WriteBroadcast(ser[l], l, {ser[l].client})
  /\ ser' = [ser EXCEPT ![l].pc = "ret", ![l].rv = NextVersion(ser[l].v), ![l].rd = ser[l].d]
  /\ UNCHANGED <<procVars, sockVars, dsVars, clients, acc, lrd, lw>>
  /\ UNCHANGED <<peer, toL, connL, connF, follVars, applied, notified, boot, cntVars, watchVars>>
  /\ UNCHANGED extVars

\* handleClientRequest after write returned (lines 200-227): the response goes
\* to n.clients[clientID]; then NewVersion(newVersion, newData) goes to the
\* watchers.  A client no longer in the map gives a nil Client, and the call
\* on it panics: the process ends.
SerializerRespond(l) ==
  /\ alive[l] /\ ser[l].pc = "ret"
  /\ LET c == ser[l].client
         res == UpdateResponse(ser[l].id, ResponseCode(ser[l].err), ser[l].rv, ser[l].rd)
     IN IF c \in clients[l]
        THEN /\ toF' = [toF EXCEPT ![c] = Deliver(c, res)]
             /\ sent' = [sent EXCEPT ![c] = Record(c, res)]
             /\ notified' = [notified EXCEPT ![l] = Append(@, [v |-> ser[l].rv, d |-> ser[l].rd])]
             /\ ser' = [ser EXCEPT ![l] = IdleSer]
             /\ UNCHANGED <<alive, listening, backlog, connL, connF>>
        ELSE /\ ProcessDies(l)
             /\ UNCHANGED <<toF, sent, notified, ser>>
  /\ UNCHANGED <<sup, supClosed, pc, attempts, node, sockFile, dsVars, clients, acc, lrd, lw>>
  /\ UNCHANGED <<peer, toL, follVars, wlog, applied, boot, cntVars, watchVars>>
  /\ UNCHANGED extVars

\* LeaderNode.Write(version, data): write(version, data, nil) on the caller's goroutine.
LeaderWrite(l, version) ==
  /\ alive[l] /\ node[l] = "leader" /\ lw[l].pc \in {"idle", "done"}
  /\ nOps < MaxOps
  /\ LET r == WriteCheck([IdleWrite EXCEPT !.v = version, !.d = nOps + 1], l)
     IN lw' = [lw EXCEPT ![l] = IF r.pc = "ret" THEN Done(r, r.err, r.rv) ELSE r]
  /\ nOps' = nOps + 1
  /\ UNCHANGED <<procVars, sockVars, dsVars, clients, acc, lrd, ser>>
  /\ UNCHANGED <<connVars, follVars, histVars, nFaults, watchVars>>
  /\ UNCHANGED extVars

LeaderWritePut(l) ==
  /\ alive[l] /\ lw[l].pc = "put"
  /\ WritePut(lw[l], l, NoProc)
  /\ lw' = [lw EXCEPT ![l].pc = "bcast", ![l].w = Len(wlog) + 1]
  /\ UNCHANGED <<procVars, sockVars, fds, clients, acc, lrd, ser>>
  /\ UNCHANGED <<connVars, follVars, sent, applied, notified, boot, cntVars, watchVars>>
  /\ UNCHANGED extVars

LeaderWriteBroadcast(l) ==
  /\ alive[l] /\ lw[l].pc = "bcast"
  /\ WriteBroadcast(lw[l], l, {})
  /\ lw' = [lw EXCEPT ![l] = Done(lw[l], "", NextVersion(lw[l].v))]
  /\ UNCHANGED <<procVars, sockVars, dsVars, clients, acc, lrd, ser>>
  /\ UNCHANGED <<peer, toL, connL, connF, follVars, applied, notified, boot, cntVars, watchVars>>
  /\ UNCHANGED extVars

\* n.ds.Put returns an error (a datastore that can fail, unlike
\* memory.Datastore, and leaves what it held): write returns
\* (v, nil, "failed to put data: ...") and reaches no broadcast.
SerializerPutFails(l) ==
  /\ alive[l] /\ ser[l].pc = "put"
  /\ ser' = [ser EXCEPT ![l].pc = "ret", ![l].rv = ser[l].cur, ![l].rd = Nil,
                         ![l].err = "failed to put data"]
  /\ UNCHANGED <<procVars, sockVars, dsVars, clients, acc, lrd, lw>>
  /\ UNCHANGED <<connVars, follVars, histVars, cntVars, watchVars>>
  /\ UNCHANGED extVars

LeaderWritePutFails(l) ==
  /\ alive[l] /\ lw[l].pc = "put"
  /\ lw' = [lw EXCEPT ![l] = Done(lw[l], "failed to put data", lw[l].cur)]
  /\ UNCHANGED <<procVars, sockVars, dsVars, clients, acc, lrd, ser>>
  /\ UNCHANGED <<connVars, follVars, histVars, cntVars, watchVars>>
  /\ UNCHANGED extVars

\* ------------------------------------------------------------ follower
\* The reader goroutine takes the next frame and runs handleMessage on it.
\* UpdateResponse: handed to the Write waiting on its request id (the reader
\* blocks on the slot until the writer receives); dropped when no slot is
\* registered under the id.  VersionUpdate: put into the datastore; the first
\* one sets ready and releases the constructor, later ones go to the watchers.
\* Frames received before the node's Close may sit in the bufio.Reader and are
\* still handled after it.
HandleMessage(f) ==
  /\ alive[f] /\ frd[f] = "run" /\ toF[f] # <<>>
  /\ LET m == Head(toF[f])
     IN /\ toF' = [toF EXCEPT ![f] = Tail(@)]
        /\ applied' = [applied EXCEPT ![f] = Append(@, m)]
        /\ IF m.t = "UR"
           THEN /\ (m.id \in requests[f]) => (fw[f].pc = "wait" /\ fw[f].id = m.id)
                /\ fw' = IF m.id \in requests[f]
                         THEN [fw EXCEPT ![f].pc = "gotres", ![f].rv = m.v,
                                         ![f].err = WriteError(m.err)]
                         ELSE fw
                /\ UNCHANGED <<fds, ready, notified, boot>>
           ELSE /\ fds' = [fds EXCEPT ![f] = DsPut(@, m.v, m.d)]
                /\ IF ~ready[f]
                   THEN /\ ready' = [ready EXCEPT ![f] = TRUE]
                        /\ boot' = [boot EXCEPT ![f].got = TRUE, ![f].v = m.v, ![f].d = m.d]
                        /\ UNCHANGED notified
                   ELSE /\ notified' = [notified EXCEPT ![f] = Append(@, [v |-> m.v, d |-> m.d])]
                        /\ UNCHANGED <<ready, boot>>
                /\ UNCHANGED fw
  /\ UNCHANGED <<procVars, sockVars, lds, leadVars>>
  /\ UNCHANGED <<peer, toL, connL, connF, frd, requests, nextRequestID, wlog, sent, cntVars, watchVars>>
  /\ UNCHANGED extVars

\* The reader's Read fails (own end closed, or EOF once the buffered frames
\* are consumed): the loop breaks and closeChan is closed.
FollowerReaderExit(f) ==
  /\ alive[f] /\ frd[f] = "run"
  /\ ~connF[f] \/ (toF[f] = <<>> /\ ~connL[f])
  /\ frd' = [frd EXCEPT ![f] = "exited"]
  /\ UNCHANGED <<procVars, sockVars, dsVars, leadVars, connVars>>
  /\ UNCHANGED <<ready, requests, nextRequestID, fw, histVars, cntVars, watchVars>>
  /\ UNCHANGED extVars

\* FollowerNode.Write(version, data) up to n.server.Write (lines 123-148): the
\* local version test, then the request is written to the leader.
FollowerWrite(f, version) ==
  /\ alive[f] /\ node[f] = "follower" /\ fw[f].pc \in {"idle", "done"}
  /\ nOps < MaxOps
  /\ LET v == DsGet(fds[f]).v
         data == nOps + 1
         call == [IdleWrite EXCEPT !.v = version, !.d = data, !.cur = v]
     IN IF ~VersionMatches(version, v)
        THEN /\ fw' = [fw EXCEPT ![f] = Done(call, "ErrVersionMismatch", 0)]
             /\ UNCHANGED toL
        ELSE IF ~ConnUp(f)
        THEN /\ fw' = [fw EXCEPT ![f] = Done(call, "failed to write to server", 0)]
             /\ UNCHANGED toL
        ELSE /\ fw' = [fw EXCEPT ![f] = [call EXCEPT !.pc = "reg", !.id = nextRequestID[f]]]
             /\ toL' = [toL EXCEPT ![f] = Append(@, UpdateRequest(nextRequestID[f], version, data))]
  /\ nOps' = nOps + 1
  /\ UNCHANGED <<procVars, sockVars, dsVars, leadVars>>
  /\ UNCHANGED <<peer, toF, connL, connF, frd, ready, requests, nextRequestID, histVars, nFaults, watchVars>>
  /\ UNCHANGED extVars

\* FollowerNode.Write, lines 150-152: the response slot is registered and
\* nextRequestID advances, after the request has been written.
FollowerWriteRegister(f) ==
  /\ alive[f] /\ fw[f].pc = "reg"
  /\ requests' = [requests EXCEPT ![f] = @ \cup {nextRequestID[f]}]
  /\ nextRequestID' = [nextRequestID EXCEPT ![f] = @ + 1]
  /\ fw' = [fw EXCEPT ![f].pc = "wait"]
  /\ UNCHANGED <<procVars, sockVars, dsVars, leadVars, connVars>>
  /\ UNCHANGED <<frd, ready, histVars, cntVars, watchVars>>
  /\ UNCHANGED extVars

\* A Write that puts the version it asked for instead of the response's.
RequestedState(w) == [v |-> w.v, d |-> w.d]
\* What Write puts on ResponseErrorNone: the response's version with the
\* caller's data.
AcceptedState(w) == [v |-> w.rv, d |-> w.d]

\* FollowerNode.Write after res := <-resChan (lines 156-165).
FollowerWriteFinish(f) ==
  /\ alive[f] /\ fw[f].pc = "gotres"
  /\ fds' = [fds EXCEPT ![f] = IF fw[f].err = ""
                               THEN DsPut(@, AcceptedState(fw[f]).v, AcceptedState(fw[f]).d)
                               ELSE @]
  /\ fw' = [fw EXCEPT ![f] = Done(fw[f], fw[f].err, fw[f].rv)]
  /\ UNCHANGED <<procVars, sockVars, lds, leadVars, connVars>>
  /\ UNCHANGED <<frd, ready, requests, nextRequestID, histVars, cntVars, watchVars>>
  /\ UNCHANGED extVars

\* ---------------------------------------------------------------- Close
\* A Close of the listener that leaves the socket path in place.
CloseWithoutUnlink(l) ==
  /\ dsOpen' = [dsOpen EXCEPT ![l] = FALSE]
  /\ listening' = [listening EXCEPT ![l] = FALSE]
  /\ UNCHANGED sockFile
  /\ backlog' = [backlog EXCEPT ![l] = <<>>]
  /\ connL' = [f \in Procs |-> IF f \in Range(backlog[l]) THEN FALSE ELSE connL[f]]

\* LeaderNode.Close: ds.Close, then listener.Close, which unlinks the socket
\* path and resets the connections still waiting in the backlog.  The
\* accepted connections stay open.
LeaderNodeClose(l) ==
  /\ dsOpen' = [dsOpen EXCEPT ![l] = FALSE]
  /\ listening' = [listening EXCEPT ![l] = FALSE]
  /\ sockFile' = NoProc
  /\ backlog' = [backlog EXCEPT ![l] = <<>>]
  /\ connL' = [f \in Procs |-> IF f \in Range(backlog[l]) THEN FALSE ELSE connL[f]]

\* FollowerNode.Close: n.server.Close().
FollowerNodeClose(f) ==
  connF' = [connF EXCEPT ![f] = FALSE]

LeaderClose(l) ==
  /\ alive[l] /\ sup[l] = "none" /\ node[l] = "leader" /\ listening[l]
  /\ nFaults < MaxFaults
  /\ LeaderNodeClose(l)
  /\ nFaults' = nFaults + 1
  /\ UNCHANGED <<procVars, dsVars, leadVars, peer, toL, toF, connF, follVars, histVars, nOps, watchVars>>
  /\ UNCHANGED <<handle, aof, wire, kv, calls>>

FollowerClose(f) ==
  /\ alive[f] /\ sup[f] = "none" /\ node[f] = "follower" /\ connF[f]
  /\ nFaults < MaxFaults
  /\ FollowerNodeClose(f)
  /\ nFaults' = nFaults + 1
  /\ UNCHANGED <<procVars, sockVars, dsVars, leadVars, peer, toL, toF, connL, follVars, histVars, nOps, watchVars>>
  /\ UNCHANGED extVars

\* The process holding the leader node is killed.
Crash(p) ==
  /\ alive[p] /\ node[p] = "leader"
  /\ nFaults < MaxFaults
  /\ ProcessDies(p)
  /\ nFaults' = nFaults + 1
  /\ UNCHANGED <<sup, supClosed, pc, attempts, node, sockFile, dsVars, leadVars>>
  /\ UNCHANGED <<peer, toL, toF, follVars, histVars, nOps, watchVars>>
  /\ UNCHANGED extVars

\* ----------------------------------------------------------- supervisor
\* State.Open: initNodeWithRetry; each attempt starts with NewLeaderNode.
Open(p) ==
  /\ alive[p] /\ sup[p] = "new" /\ watching[p].call = "idle"
  /\ sup' = [sup EXCEPT ![p] = "opening"]
  /\ attempts' = [attempts EXCEPT ![p] = 0]
  /\ pc' = [pc EXCEPT ![p] = "nl_check"]
  /\ UNCHANGED <<alive, supClosed, node>>
  /\ UNCHANGED <<sockVars, dsVars, leadVars, connVars, follVars, histVars, cntVars, watchVars>>
  /\ UNCHANGED extVars

\* A retry on ErrLeaderClosed that leaves the entry where it is.
RetryWithoutRemove(p) ==
  /\ alive[p] /\ pc[p] = "remove"
  /\ FailAttempt(p)
  /\ UNCHANGED <<alive, supClosed, node, sockVars>>
  /\ UNCHANGED <<dsVars, leadVars, connVars, follVars, histVars, cntVars, watchVars>>
  /\ UNCHANGED extVars

\* initNodeWithRetry on ErrLeaderClosed: os.Remove(s.socket), sleep, retry.
RemoveSocket(p) ==
  /\ alive[p] /\ pc[p] = "remove"
  /\ sockFile' = NoProc
  /\ FailAttempt(p)
  /\ UNCHANGED <<alive, supClosed, node, listening, backlog>>
  /\ UNCHANGED <<dsVars, leadVars, connVars, follVars, histVars, cntVars, watchVars>>
  /\ UNCHANGED extVars

\* The goroutine of initNode waiting on closeCh: unless s.closed, it signals
\* resetCh, and Open's loop runs initNodeWithRetry again.
Reset(p) ==
  /\ alive[p] /\ sup[p] = "open" /\ node[p] = "follower" /\ frd[p] = "exited"
  /\ frd' = [frd EXCEPT ![p] = "gone"]
  /\ IF supClosed[p]
     THEN UNCHANGED <<sup, attempts, pc>>
     ELSE /\ sup' = [sup EXCEPT ![p] = "resetting"]
          /\ attempts' = [attempts EXCEPT ![p] = 0]
          /\ pc' = [pc EXCEPT ![p] = "nl_check"]
  /\ UNCHANGED <<alive, supClosed, node>>
  /\ UNCHANGED <<sockVars, dsVars, leadVars, connVars>>
  /\ UNCHANGED <<ready, requests, nextRequestID, fw, histVars, cntVars, watchVars>>
  /\ UNCHANGED extVars

\* State.Close: s.closed = true, then s.n.Close().  During a reset s.n is
\* still the node that lost its connection: the connection a new
\* NewFollowerNode has dialled is not s.n's and stays open.  The application
\* calls it once, whatever else has happened.
Close(p) ==
  /\ alive[p] /\ sup[p] \in {"open", "resetting", "errored"} /\ ~supClosed[p]
  /\ UNCHANGED nFaults
  /\ supClosed' = [supClosed EXCEPT ![p] = TRUE]
  /\ IF node[p] = "leader"
     THEN /\ IF listening[p] THEN LeaderNodeClose(p)
                             ELSE UNCHANGED <<dsOpen, listening, sockFile, backlog, connL>>
          /\ UNCHANGED connF
     ELSE /\ IF pc[p] = "nf_wait" THEN UNCHANGED connF ELSE FollowerNodeClose(p)
          /\ UNCHANGED <<dsOpen, listening, sockFile, backlog, connL>>
  /\ UNCHANGED <<alive, sup, pc, attempts, node>>
  /\ UNCHANGED <<dsVars, leadVars, peer, toL, toF, follVars, histVars, nOps, watchVars>>
  /\ UNCHANGED <<handle, aof, wire, kv, calls>>

\* ---------------------------------------------------------- State.Watch
MaxWatchers == 2

\* State.Watch: watcher := make(chan *Version); s.watchers = append(...).
\* The application of one process subscribes, before it calls Open or after
\* Open has returned.
Watch(p) ==
  /\ alive[p] /\ sup[p] \notin {"none", "opening"} /\ p = FollowerProc
  /\ watching[p].call = "idle" /\ Cardinality(watchers[p]) < MaxWatchers
  /\ watchers' = [watchers EXCEPT ![p] = @ \cup {Cardinality(@) + 1}]
  /\ watching' = [watching EXCEPT ![p].call = "node", ![p].ch = Cardinality(watchers[p]) + 1]
  /\ UNCHANGED <<procVars, sockVars, dsVars, leadVars, connVars, follVars, histVars, cntVars>>
  /\ UNCHANGED watchChannels
  /\ UNCHANGED extVars

\* State.Watch: if s.n != nil, s.n.Watch(watcher), whose append reads the
\* node's list ...
WatchNode(p) ==
  /\ alive[p] /\ watching[p].call = "node"
  /\ watching' = [watching EXCEPT ![p].call = IF node[p] = "none" THEN "idle" ELSE "store",
                                  ![p].ctmp = watchChannels[p]]
  /\ UNCHANGED <<procVars, sockVars, dsVars, leadVars, connVars, follVars, histVars, cntVars>>
  /\ UNCHANGED <<watchers, watchChannels>>
  /\ UNCHANGED extVars

\* ... and writes it back with the channel appended.
WatchStore(p) ==
  /\ alive[p] /\ watching[p].call = "store"
  /\ watchChannels' = [watchChannels EXCEPT ![p] = watching[p].ctmp \cup {watching[p].ch}]
  /\ watching' = [watching EXCEPT ![p].call = "idle"]
  /\ UNCHANGED <<procVars, sockVars, dsVars, leadVars, connVars, follVars, histVars, cntVars>>
  /\ UNCHANGED watchers
  /\ UNCHANGED extVars

\* initNode's loop, s.n.Watch(ch) for the next channel of s.watchers: the
\* append reads the node's list ...
RegisterLoad(p) ==
  /\ alive[p] /\ pc[p] = "watch" /\ watching[p].lch = 0
  /\ LET ch == CHOOSE c \in watching[p].todo : \A o \in watching[p].todo : c <= o
     IN watching' = [watching EXCEPT ![p].lch = ch, ![p].ltmp = watchChannels[p]]
  /\ UNCHANGED <<procVars, sockVars, dsVars, leadVars, connVars, follVars, histVars, cntVars>>
  /\ UNCHANGED <<watchers, watchChannels>>
  /\ UNCHANGED extVars

\* ... and writes it back with the channel appended; after the last channel
\* initNode returns.
RegisterStore(p) ==
  /\ alive[p] /\ pc[p] = "watch" /\ watching[p].lch # 0
  /\ watchChannels' = [watchChannels EXCEPT ![p] = watching[p].ltmp \cup {watching[p].lch}]
  /\ watching' = [watching EXCEPT ![p].lch = 0, ![p].ltmp = {},
                                  ![p].todo = @ \ {watching[p].lch}]
  /\ IF watching[p].todo = {watching[p].lch}
     THEN /\ pc' = [pc EXCEPT ![p] = "idle"]
          /\ sup' = Started(p)
     ELSE UNCHANGED <<pc, sup>>
  /\ UNCHANGED <<alive, supClosed, attempts, node>>
  /\ UNCHANGED <<sockVars, dsVars, leadVars, connVars, follVars, histVars, cntVars>>
  /\ UNCHANGED watchers
  /\ UNCHANGED extVars

\* ------------------------------------------------------- specifications
\* Nodes used directly: process LeaderProc constructs a leader node, the
\* others follower nodes, and their callers write and close.
Next ==
  \E p \in Procs :
    \/ NewLeaderNodeCheck(p) \/ NewLeaderNodeBind(p)
    \/ NewFollowerNodeDial(p) \/ NewFollowerNodeReturn(p)
    \/ AcceptConnection(p) \/ RegisterClient(p)
    \/ \E f \in Procs : HandleClientRequest(p, f) \/ ClientReaderExit(p, f)
    \/ SerializerPut(p) \/ SerializerBroadcast(p) \/ SerializerRespond(p)
    \/ \E v \in Versions : LeaderWrite(p, v) \/ FollowerWrite(p, v)
    \/ LeaderWritePut(p) \/ LeaderWriteBroadcast(p)
    \/ HandleMessage(p) \/ FollowerReaderExit(p)
    \/ FollowerWriteRegister(p) \/ FollowerWriteFinish(p)
    \/ LeaderClose(p) \/ FollowerClose(p) \/ Crash(p)

Spec == Init /\ [][Next]_vars

\* Every process runs a supervisor (State) over the same rendezvous path.
SupInit ==
  /\ Start /\ NoStore
  /\ sup = [p \in Procs |-> "new"]
  /\ pc = [p \in Procs |-> "idle"]

SupNext ==
  \E p \in Procs :
    \/ Open(p) \/ NewLeaderNodeCheck(p) \/ NewLeaderNodeBind(p)
    \/ NewFollowerNodeDial(p) \/ NewFollowerNodeReturn(p) \/ RemoveSocket(p)
    \/ AcceptConnection(p) \/ RegisterClient(p)
    \/ \E f \in Procs : ClientReaderExit(p, f)
    \/ HandleMessage(p) \/ FollowerReaderExit(p)
    \/ Reset(p) \/ Close(p) \/ Crash(p)

SupSpec == SupInit /\ [][SupNext]_vars

\* The threads of a supervised process: initNodeWithRetry, the accept loop,
\* the readers, the goroutine waiting on closeCh.
SupProgress ==
  \E p \in Procs :
    \/ NewLeaderNodeCheck(p) \/ NewLeaderNodeBind(p)
    \/ NewFollowerNodeDial(p) \/ NewFollowerNodeReturn(p) \/ RemoveSocket(p)
    \/ AcceptConnection(p) \/ RegisterClient(p)
    \/ \E f \in Procs : ClientReaderExit(p, f)
    \/ HandleMessage(p) \/ FollowerReaderExit(p)
    \/ Reset(p)

\* The callers open and close when they like, a process may be killed; the
\* threads above are scheduled fairly.
SupLiveSpec == SupInit /\ [][SupNext]_vars /\ WF_vars(SupProgress)

\* Supervisors whose application subscribes watchers.
WatchNext ==
  \/ SupNext
  \/ \E p \in Procs :
       \/ Watch(p) \/ WatchNode(p) \/ WatchStore(p)
       \/ RegisterLoad(p) \/ RegisterStore(p)

WatchSpec == SupInit /\ [][WatchNext]_vars

\* Supervisors whose leader datastore or socket path may fail an attempt.
RetryNext ==
  \/ SupNext
  \/ \E p \in Procs : NewLeaderNodeFails(p)

RetrySpec == SupInit /\ [][RetryNext]_vars

\* No connection is lost: nobody closes a node and no process is killed.  The
\* goroutines (accept loop, serializer, readers, the threads inside a
\* constructor or a Write) are scheduled fairly; the callers' Write calls are
\* not forced.
Progress ==
  \E p \in Procs :
    \/ NewLeaderNodeCheck(p) \/ NewLeaderNodeBind(p)
    \/ NewFollowerNodeDial(p) \/ NewFollowerNodeReturn(p)
    \/ AcceptConnection(p) \/ RegisterClient(p)
    \/ \E f \in Procs : HandleClientRequest(p, f)
    \/ SerializerPut(p) \/ SerializerBroadcast(p) \/ SerializerRespond(p)
    \/ LeaderWritePut(p) \/ LeaderWriteBroadcast(p)
    \/ HandleMessage(p)
    \/ FollowerWriteRegister(p) \/ FollowerWriteFinish(p)

LiveNext ==
  \/ Progress
  \/ \E p \in Procs, v \in Versions : LeaderWrite(p, v) \/ FollowerWrite(p, v)

LiveSpec == Init /\ [][LiveNext]_vars /\ WF_vars(Progress)

\* As LiveSpec, over a leader datastore whose Put can fail.
DsNext ==
  \/ LiveNext
  \/ \E p \in Procs : SerializerPutFails(p) \/ LeaderWritePutFails(p)

DsSpec == Init /\ [][DsNext]_vars

\* ------------------------------------------------------- a scripted peer
\* The follower node against a peer that is not a LeaderNode (the listener of
\* the follower tests): it accepts, writes the frames it likes, answers a
\* request with any response code and version, stays silent, or closes.
MaxFrames == 3
\* UpdateResponse.Error as a peer can set it: the three codes and one more.
ResponseCodes == ResponseErrorNone..(ResponseErrorWriteFailed + 1)

PeerInit ==
  /\ Start /\ NoStore
  /\ sup = [p \in Procs |-> "none"]
  /\ pc = [p \in Procs |-> IF p = LeaderProc THEN "listen"
                           ELSE IF p = FollowerProc THEN "nf_dial" ELSE "idle"]

\* net.Listen("unix", s).
PeerListen(l) ==
  /\ alive[l] /\ pc[l] = "listen"
  /\ sockFile' = l
  /\ listening' = [listening EXCEPT ![l] = TRUE]
  /\ node' = [node EXCEPT ![l] = "peer"]
  /\ pc' = [pc EXCEPT ![l] = "idle"]
  /\ UNCHANGED <<alive, sup, supClosed, attempts, backlog>>
  /\ UNCHANGED <<dsVars, leadVars, connVars, follVars, histVars, cntVars, watchVars>>
  /\ UNCHANGED extVars

\* listener.Accept().
PeerAccept(l) ==
  /\ alive[l] /\ node[l] = "peer" /\ backlog[l] # <<>>
  /\ backlog' = [backlog EXCEPT ![l] = Tail(@)]
  /\ lrd' = [lrd EXCEPT ![Head(backlog[l])] = "run"]
  /\ UNCHANGED <<procVars, sockFile, listening, dsVars, clients, acc, ser, lw>>
  /\ UNCHANGED <<connVars, follVars, histVars, cntVars, watchVars>>
  /\ UNCHANGED extVars

\* The peer writes frame on the accepted connection f.
PeerWrite(l, f, frame) ==
  /\ alive[l] /\ node[l] = "peer" /\ peer[f] = l /\ lrd[f] = "run" /\ connL[f]
  /\ Len(sent[f]) < MaxFrames
  /\ toF' = [toF EXCEPT ![f] = Deliver(f, frame)]
  /\ sent' = [sent EXCEPT ![f] = Record(f, frame)]

\* sendVersionUpdate(conn, version, data).
PeerUpdate(l, f, version) ==
  /\ PeerWrite(l, f, VersionUpdateMessage(version, Nil, 0))
  /\ UNCHANGED <<procVars, sockVars, dsVars, leadVars>>
  /\ UNCHANGED <<peer, toL, connL, connF, follVars, wlog, applied, notified, boot, cntVars, watchVars>>
  /\ UNCHANGED extVars

\* conn.Read of a request, then sendUpdateResponse with the request's id.
PeerRespond(l, f, code, version) ==
  /\ toL[f] # <<>>
  /\ PeerWrite(l, f, UpdateResponse(Head(toL[f]).id, code, version, Nil))
  /\ toL' = [toL EXCEPT ![f] = Tail(@)]
  /\ UNCHANGED <<procVars, sockVars, dsVars, leadVars>>
  /\ UNCHANGED <<peer, connL, connF, follVars, wlog, applied, notified, boot, cntVars, watchVars>>
  /\ UNCHANGED extVars

\* conn.Close() on the peer's side.
PeerClose(l, f) ==
  /\ alive[l] /\ node[l] = "peer" /\ peer[f] = l /\ lrd[f] = "run" /\ connL[f]
  /\ nFaults < MaxFaults
  /\ connL' = [connL EXCEPT ![f] = FALSE]
  /\ nFaults' = nFaults + 1
  /\ UNCHANGED <<procVars, sockVars, dsVars, leadVars>>
  /\ UNCHANGED <<peer, toL, toF, connF, follVars, histVars, nOps, watchVars>>
  /\ UNCHANGED extVars

\* The follower's own threads: the constructor, the reader, a Write in progress.
FollowerProgress ==
  \E f \in Procs :
    \/ NewFollowerNodeDial(f) \/ NewFollowerNodeReturn(f)
    \/ HandleMessage(f) \/ FollowerReaderExit(f)
    \/ FollowerWriteRegister(f) \/ FollowerWriteFinish(f)

PeerNext ==
  \/ FollowerProgress
  \/ \E p \in Procs :
       \/ PeerListen(p) \/ PeerAccept(p)
       \/ \E f \in Procs, v \in Versions :
            \/ PeerUpdate(p, f, v)
            \/ \E code \in ResponseCodes : PeerRespond(p, f, code, v)
       \/ \E f \in Procs : PeerClose(p, f)
       \/ \E v \in Versions : FollowerWrite(p, v)
       \/ FollowerClose(p)

\* The peer and the callers are free to act or not; the follower's threads
\* are scheduled fairly.
PeerSpec == PeerInit /\ [][PeerNext]_vars /\ WF_vars(FollowerProgress)

\* ------------------------------------------------------- Version handles
\* n.Version() of the node the process holds.
NodeVersion(p) == IF node[p] = "leader" THEN DsGet(lds[p]).v ELSE DsGet(fds[p]).v

\* State.Current: NewVersion(n.Version(), n.Data(), s).  The handle keeps the
\* version it was made with; its writer hands Write to the node.
Current(p) ==
  /\ alive[p] /\ node[p] \in {"leader", "follower"}
  /\ handle' = [handle EXCEPT ![p] = NodeVersion(p)]
  /\ UNCHANGED <<procVars, sockVars, dsVars, leadVars, connVars, follVars, histVars, cntVars, watchVars>>
  /\ UNCHANGED <<dsOpen, aof, wire, kv, calls>>

\* An Update that asks the node for its version when it writes.
UpdateWithCurrent(p) ==
  /\ handle[p] # NoVersion
  /\ LeaderWrite(p, NodeVersion(p)) \/ FollowerWrite(p, NodeVersion(p))

\* Version.Update(data): v.writer.Write(v.version, data).
Update(p) ==
  /\ handle[p] # NoVersion
  /\ LeaderWrite(p, handle[p]) \/ FollowerWrite(p, handle[p])

\* As LiveSpec, the callers writing through the handles they hold.
HandleNext ==
  \/ Progress
  \/ \E p \in Procs : Current(p) \/ Update(p)

HandleSpec == Init /\ [][HandleNext]_vars

\* ------------------------------------------------------------ wire codec
\* binary.BigEndian: the w bytes of n, and the number a byte slice holds
\* (numbers from MaxUint on are not told apart and read as MaxUint).
RECURSIVE BigEndian(_, _)
BigEndian(n, w) == IF w = 0 THEN <<>> ELSE Append(BigEndian(n \div 256, w - 1), n % 256)
RECURSIVE Uint(_)
Uint(bytes) ==
  IF bytes = <<>> THEN 0
  ELSE LET high == Uint(SubSeq(bytes, 1, Len(bytes) - 1))
       IN IF high >= MaxUint \div 256 THEN MaxUint ELSE high * 256 + bytes[Len(bytes)]

\* MessageTypeUpdateRequest, MessageTypeUpdateResponse, MessageTypeVersionUpdate.
MessageType(kind) == CASE kind = "REQ" -> 2 [] kind = "UR" -> 3 [] kind = "VU" -> 4

\* Encode of the three messages: the tag, the fixed fields, the data.
\* UpdateResponse.Error is an int16, written as its two's complement.
Encode(m) ==
  BigEndian(MessageType(m.kind), 2) \o
  (CASE m.kind = "REQ" -> BigEndian(m.id, 8) \o BigEndian(m.v, 8)
     [] m.kind = "UR" -> BigEndian(m.id, 8) \o BigEndian(m.err % 65536, 2) \o BigEndian(m.v, 8)
     [] m.kind = "VU" -> BigEndian(m.v, 8)) \o m.d

PrependRequestLength(data) == BigEndian(Len(data), 8) \o data

\* Decode of the three messages: a tag other than the decoder's is an error;
\* the fields are then sliced out of the body, and a slice beyond its end
\* panics.  Fields a message does not have stay at their zero value.
Decode(kind, data) ==
  LET need == CASE kind = "REQ" -> 18 [] kind = "UR" -> 20 [] kind = "VU" -> 10
      field(a, w) == Uint(SubSeq(data, a, a + w - 1))
      int16(u) == IF u >= 32768 THEN u - 65536 ELSE u
      rest(a) == SubSeq(data, a, Len(data))
  IN IF Len(data) < 2 THEN [res |-> "panic", out |-> <<>>]
     ELSE IF field(1, 2) # MessageType(kind) THEN [res |-> "error", out |-> <<>>]
     ELSE IF Len(data) < need THEN [res |-> "panic", out |-> <<>>]
     ELSE [res |-> "ok", out |->
             CASE kind = "REQ" -> [kind |-> kind, id |-> field(3, 8), err |-> 0,
                                   v |-> field(11, 8), d |-> rest(19)]
               [] kind = "UR" -> [kind |-> kind, id |-> field(3, 8), err |-> int16(field(11, 2)),
                                  v |-> field(13, 8), d |-> rest(21)]
               [] kind = "VU" -> [kind |-> kind, id |-> 0, err |-> 0,
                                  v |-> field(3, 8), d |-> rest(11)]]

\* The messages put on the wire: request ids and versions of one and of two
\* bytes, the response codes and a negative one, data of 0 to 2 bytes.
Messages ==
  LET ids == {1, 258}
      versions == {0, 1, 258}
      datas == {<<>>, <<7>>, <<0, 9>>}
  IN {[kind |-> "REQ", id |-> i, err |-> 0, v |-> v, d |-> d] :
        i \in ids, v \in versions, d \in datas}
     \cup {[kind |-> "UR", id |-> i[1], err |-> i[2], v |-> v, d |-> d] :
             i \in ids \X {ResponseErrorNone, ResponseErrorMismatchedVersion,
                           ResponseErrorWriteFailed, -1},
             v \in versions, d \in datas}
     \cup {[kind |-> "VU", id |-> 0, err |-> 0, v |-> v, d |-> d] :
             v \in versions, d \in datas}

\* A sender holds a message; no node runs.
WireInit ==
  /\ Start
  /\ sup = [p \in Procs |-> "none"]
  /\ pc = [p \in Procs |-> "idle"]
  /\ aof = NoAof /\ kv = NewStore /\ calls = IdleCalls
  /\ wire \in {[NoWire EXCEPT !.at = "msg", !.m = m] : m \in Messages}

\* conn.Write(PrependRequestLength(body)) with body the message's Encode.
WriteFrame ==
  /\ wire.at = "msg"
  /\ wire' = [wire EXCEPT !.at = "sent", !.stream = PrependRequestLength(Encode(wire.m))]
  /\ UNCHANGED <<procVars, sockVars, dsVars, leadVars, connVars, follVars, histVars, cntVars, watchVars>>
  /\ UNCHANGED <<dsOpen, handle, aof, kv, calls>>

\* The stream ends after k bytes of the frame: the writer's process was
\* killed, or the connection was closed, inside the write.
Truncate(k) ==
  /\ wire.at = "sent" /\ ~wire.cut /\ k < Len(wire.stream)
  /\ wire' = [wire EXCEPT !.stream = SubSeq(@, 1, k), !.cut = TRUE]
  /\ UNCHANGED <<procVars, sockVars, dsVars, leadVars, connVars, follVars, histVars, cntVars, watchVars>>
  /\ UNCHANGED <<dsOpen, handle, aof, kv, calls>>

\* One round of the frame reader's loop (the leader's client reader and the
\* follower's reader are the same): reader.Read(header), and the loop ends on
\* an error; body := make([]byte, length); reader.Read(body), and the frame
\* is skipped on an error; else the body is handed on.  bufio's Read returns
\* the bytes that are there, fewer than asked without an error, and an error
\* only when there are none (and some were asked for): what was not read
\* stays zero.
ReadFrame ==
  /\ wire.at = "sent"
  /\ LET pad(b, n) == [i \in 1..n |-> IF i <= Len(b) THEN b[i] ELSE 0]
         header == pad(wire.stream, 8)
         length == Uint(header)
         rest == IF Len(wire.stream) > 8 THEN SubSeq(wire.stream, 9, Len(wire.stream)) ELSE <<>>
     IN IF wire.stream = <<>> \/ (length > 0 /\ rest = <<>>)
        THEN wire' = [wire EXCEPT !.at = "dropped"]
        ELSE wire' = [wire EXCEPT !.at = "read", !.body = pad(rest, length)]
  /\ UNCHANGED <<procVars, sockVars, dsVars, leadVars, connVars, follVars, histVars, cntVars, watchVars>>
  /\ UNCHANGED <<dsOpen, handle, aof, kv, calls>>

\* The body goes to the Decode of one of the message kinds.
DecodeBody(kind) ==
  /\ wire.at = "read"
  /\ wire' = [wire EXCEPT !.at = "decoded", !.as = kind,
                          !.res = Decode(kind, wire.body).res,
                          !.out = Decode(kind, wire.body).out]
  /\ UNCHANGED <<procVars, sockVars, dsVars, leadVars, connVars, follVars, histVars, cntVars, watchVars>>
  /\ UNCHANGED <<dsOpen, handle, aof, kv, calls>>

WireNext ==
  \/ WriteFrame \/ ReadFrame
  \/ \E k \in 0..MaxFrameLen : Truncate(k)
  \/ \E kind \in {"REQ", "UR", "VU"} : DecodeBody(kind)

WireSpec == WireInit /\ [][WireNext]_vars

\* -------------------------------------------------- appendonly.Datastore
\* The file is its bytes: FileVersion at 0, Offset at 2, NextOffset at 10,
\* Version at 18, the data region from 26.
\* file.Read of n bytes at position pos: the bytes that are there (n: their
\* number; the buffer stays zero beyond them), io.EOF when n > 0 were asked
\* for and none is there.
ReadAt(file, pos, n) ==
  LET have == IF pos >= Len(file) THEN 0
              ELSE IF Len(file) - pos < n THEN Len(file) - pos ELSE n
  IN [n |-> have, eof |-> n > 0 /\ have = 0,
      buf |-> [i \in 1..n |-> IF i <= have THEN file[pos + i] ELSE 0]]

\* file.Write of bytes at position pos; a gap before pos reads as zero.
WriteAt(file, pos, bytes) ==
  IF bytes = <<>> THEN file
  ELSE [i \in 1..(IF Len(file) > pos + Len(bytes) THEN Len(file) ELSE pos + Len(bytes)) |->
          IF i > pos /\ i <= pos + Len(bytes) THEN bytes[i - pos]
          ELSE IF i <= Len(file) THEN file[i] ELSE 0]

\* readFileVersionHeader, readOffsetHeader, readNextOffsetHeader,
\* readVersionHeader once positioned: the w bytes read as a number, 0 on EOF.
ReadHeader(file, pos, w) == Uint(ReadAt(file, pos, w).buf)

\* A header block whose version field is left zero.
HeaderWithoutVersion(fileVersion, offset, nextOffset, version) ==
  BigEndian(fileVersion, FileVersionHeaderFieldSize) \o BigEndian(offset, OffsetHeaderFieldSize)
    \o BigEndian(nextOffset, NextOffsetHeaderFieldSize) \o BigEndian(0, VersionHeaderFieldSize)

\* The header block writeHeaders builds.
HeaderBytes(fileVersion, offset, nextOffset, version) ==
  BigEndian(fileVersion, FileVersionHeaderFieldSize) \o BigEndian(offset, OffsetHeaderFieldSize)
    \o BigEndian(nextOffset, NextOffsetHeaderFieldSize) \o BigEndian(version, VersionHeaderFieldSize)

\* NewDatastore(path) over the file found at the path (no bytes: no file, or
\* an empty one).  open: aof.file != nil; pos: the position of the open file,
\* which Seek, Read and Write share; get, put: a call in progress.  History:
\* what the last call to return was (op) and returned (err, v, d); last: the
\* pair of the last Put that returned nil, nput their number; cand: the pairs
\* a Get in progress may return (last at its call, and those of the Puts
\* running since); valid: the last validation by Open passed; torn: a process
\* was killed in a Put on a valid file after the data was written and before
\* the header was; fresh: the store started from no bytes.
NewDatastore(file) ==
  [open |-> FALSE, offset |-> 0, nextOffset |-> 0, file |-> file, pos |-> 0,
   get |-> [pc |-> "idle", length |-> 0, version |-> 0, cand |-> {}],
   put |-> [pc |-> "idle", v |-> 0, d |-> <<>>, next |-> 0, file |-> <<>>],
   op |-> "none", err |-> "", v |-> 0, d |-> <<>>,
   last |-> [v |-> 0, d |-> <<>>], nput |-> 0,
   valid |-> FALSE, torn |-> FALSE, fresh |-> file = <<>>]

\* The files found at the path: none, and headers whole or cut short (after
\* the file version, after the offsets) with the supported file version or
\* another, offsets in and out of range, with and without data.
Files ==
  LET headers == {HeaderBytes(fv, o[1], o[2], 3) :
                    fv \in {FileVersion, 5},
                    o \in {<<0, 0>>, <<0, 2>>, <<2, 2>>, <<2, 1>>, <<100, 200>>}}
      whole == {h \o d : h \in headers, d \in {<<>>, <<5, 6>>}}
  IN {<<>>} \cup whole
     \cup {SubSeq(h, 1, n) : h \in headers, n \in {OffsetHeaderPos, VersionHeaderPos}}

\* The data Put is called with.
Payloads == {<<>>, <<7>>, <<8, 9>>}

AofInit ==
  /\ Start
  /\ sup = [p \in Procs |-> "none"]
  /\ pc = [p \in Procs |-> "idle"]
  /\ wire = NoWire /\ kv = NewStore /\ calls = IdleCalls
  /\ aof \in {NewDatastore(file) : file \in Files}

\* Datastore.Open: nil when already open; else the file is opened (created
\* when absent) and aof.file set; an empty file is not read; else the file
\* version, then the offsets, are read and tested.
AofOpen ==
  /\ aof.get.pc = "idle" /\ aof.put.pc = "idle"
  /\ LET file == aof.file
         fileVersion == ReadHeader(file, FileVersionHeaderPos, FileVersionHeaderFieldSize)
         offset == ReadHeader(file, OffsetHeaderPos, OffsetHeaderFieldSize)
         nextOffset == ReadHeader(file, NextOffsetHeaderPos, NextOffsetHeaderFieldSize)
         opened == [aof EXCEPT !.open = TRUE, !.op = "Open", !.pos = 0]
     IN aof' =
          IF aof.open THEN [aof EXCEPT !.op = "Open", !.err = ""]
          ELSE IF Len(file) = 0 THEN [opened EXCEPT !.err = "", !.valid = TRUE]
          ELSE IF fileVersion # FileVersion
            THEN [opened EXCEPT !.err = "ErrUnexpectedFileVersion", !.valid = FALSE]
          ELSE IF offset > nextOffset
            THEN [opened EXCEPT !.offset = offset, !.nextOffset = nextOffset,
                                !.err = "ErrNextOffsetOutOfRange", !.valid = FALSE]
          ELSE IF offset > Len(file)
            THEN [opened EXCEPT !.offset = offset, !.nextOffset = nextOffset,
                                !.err = "ErrOffsetOutOfRange", !.valid = FALSE]
          ELSE [opened EXCEPT !.offset = offset, !.nextOffset = nextOffset,
                              !.err = "", !.valid = TRUE]
  /\ UNCHANGED <<procVars, sockVars, dsVars, leadVars, connVars, follVars, histVars, cntVars, watchVars>>
  /\ UNCHANGED <<dsOpen, handle, wire, kv, calls>>

\* Datastore.Close: aof.file.Close() and aof.file = nil.
AofClose ==
  /\ aof.get.pc = "idle" /\ aof.put.pc = "idle" /\ aof.open
  /\ aof' = [aof EXCEPT !.open = FALSE, !.op = "Close", !.err = ""]
  /\ UNCHANGED <<procVars, sockVars, dsVars, leadVars, connVars, follVars, histVars, cntVars, watchVars>>
  /\ UNCHANGED <<dsOpen, handle, wire, kv, calls>>

\* Datastore.Get is called: ErrFileNotOpen, or length := nextOffset - offset
\* and a buffer of that length, which panics when the length is negative.
AofGet ==
  /\ aof.get.pc = "idle"
  /\ aof' =
       IF ~aof.open
       THEN [aof EXCEPT !.op = "Get", !.err = "ErrFileNotOpen", !.v = 0, !.d = <<>>]
       ELSE IF aof.nextOffset < aof.offset
       THEN [aof EXCEPT !.op = "Get", !.err = "panic", !.v = 0, !.d = <<>>]
       ELSE [aof EXCEPT !.get = [pc |-> "seekv", length |-> aof.nextOffset - aof.offset,
                                 version |-> 0,
                                 cand |-> {aof.last} \cup
                                          (IF aof.put.pc = "idle" THEN {}
                                           ELSE {[v |-> aof.put.v, d |-> aof.put.d]})]]
  /\ UNCHANGED <<procVars, sockVars, dsVars, leadVars, connVars, follVars, histVars, cntVars, watchVars>>
  /\ UNCHANGED <<dsOpen, handle, wire, kv, calls>>

\* Datastore.Get goes on: readVersionHeader (Seek, Read), Seek to the data,
\* Read, and the return: an error of Read, a short read, or (version, data).
AofGetStep ==
  /\ aof.get.pc # "idle"
  /\ aof' =
       CASE aof.get.pc = "seekv" -> [aof EXCEPT !.pos = VersionHeaderPos, !.get.pc = "readv"]
         [] aof.get.pc = "readv" ->
              [aof EXCEPT !.get.version = ReadHeader(aof.file, aof.pos, VersionHeaderFieldSize),
                          !.pos = @ + ReadAt(aof.file, aof.pos, VersionHeaderFieldSize).n,
                          !.get.pc = "seekd"]
         [] aof.get.pc = "seekd" -> [aof EXCEPT !.pos = HeaderSize + aof.offset, !.get.pc = "readd"]
         [] aof.get.pc = "readd" ->
              LET r == ReadAt(aof.file, aof.pos, aof.get.length)
                  failed == [aof EXCEPT !.get.pc = "idle", !.op = "Get", !.v = 0, !.d = <<>>]
              IN IF r.eof THEN [failed EXCEPT !.err = "failed to read data"]
                 ELSE IF r.n # aof.get.length
                   THEN [failed EXCEPT !.err = "short read", !.pos = @ + r.n]
                 ELSE [aof EXCEPT !.get.pc = "idle", !.op = "Get", !.err = "",
                                  !.v = aof.get.version, !.d = r.buf, !.pos = @ + r.n]
  /\ UNCHANGED <<procVars, sockVars, dsVars, leadVars, connVars, follVars, histVars, cntVars, watchVars>>
  /\ UNCHANGED <<dsOpen, handle, wire, kv, calls>>

\* Datastore.Put(version, data) is called: ErrFileNotOpen, or on to the
\* Seek.  Every call has its own version.
AofPut(data) ==
  /\ aof.put.pc = "idle" /\ nOps < MaxOps
  /\ nOps' = nOps + 1
  /\ aof' =
       IF ~aof.open
       THEN [aof EXCEPT !.op = "Put", !.err = "ErrFileNotOpen"]
       ELSE [aof EXCEPT !.put = [pc |-> "seek", v |-> nOps + 1, d |-> data,
                                 next |-> aof.nextOffset, file |-> aof.file],
                        !.get.cand = IF aof.get.pc = "idle" THEN @
                                     ELSE @ \cup {[v |-> nOps + 1, d |-> data]}]
  /\ UNCHANGED <<procVars, sockVars, dsVars, leadVars, connVars, follVars, histVars, nFaults, watchVars>>
  /\ UNCHANGED <<dsOpen, handle, wire, kv, calls>>

\* Datastore.Put goes on: Seek to the next offset, Write of the data, the new
\* offset, the new next offset, and writeHeaders (Seek to 0, Write of the header block).
AofPutStep ==
  /\ aof.put.pc # "idle"
  /\ aof' =
       CASE aof.put.pc = "seek" -> [aof EXCEPT !.pos = HeaderSize + aof.nextOffset, !.put.pc = "write"]
         [] aof.put.pc = "write" ->
              [aof EXCEPT !.file = WriteAt(@, aof.pos, aof.put.d), !.pos = @ + Len(aof.put.d),
                          !.put.pc = "offset"]
         [] aof.put.pc = "offset" -> [aof EXCEPT !.offset = aof.nextOffset, !.put.pc = "next"]
         [] aof.put.pc = "next" ->
              [aof EXCEPT !.nextOffset = @ + Len(aof.put.d), !.put.pc = "hseek"]
         [] aof.put.pc = "hseek" -> [aof EXCEPT !.pos = 0, !.put.pc = "hwrite"]
         [] aof.put.pc = "hwrite" ->
              [aof EXCEPT !.file = WriteAt(@, aof.pos, HeaderBytes(FileVersion, aof.offset,
                                                                  aof.nextOffset, aof.put.v)),
                          !.pos = @ + HeaderSize, !.put.pc = "idle",
                          !.op = "Put", !.err = "",
                          !.last = [v |-> aof.put.v, d |-> aof.put.d], !.nput = @ + 1]
  /\ UNCHANGED <<procVars, sockVars, dsVars, leadVars, connVars, follVars, histVars, cntVars, watchVars>>
  /\ UNCHANGED <<dsOpen, handle, wire, kv, calls>>

\* The process using the store is killed; the next one starts from
\* NewDatastore over the file as it is.
AofCrash ==
  /\ nFaults < MaxFaults /\ aof.open
  /\ nFaults' = nFaults + 1
  /\ aof' = [NewDatastore(aof.file) EXCEPT
               !.last = aof.last, !.nput = aof.nput, !.fresh = aof.fresh, !.valid = aof.valid,
               !.op = "killed",
               !.torn = aof.valid /\ aof.put.pc \in {"offset", "next", "hseek", "hwrite"}]
  /\ UNCHANGED <<procVars, sockVars, dsVars, leadVars, connVars, follVars, histVars, nOps, watchVars>>
  /\ UNCHANGED <<dsOpen, handle, wire, kv, calls>>

\* One caller: a call is made when the call before has returned.
AofNext ==
  \/ AofOpen \/ AofClose \/ AofCrash
  \/ aof.put.pc = "idle" /\ AofGet
  \/ aof.get.pc = "idle" /\ \E data \in Payloads : AofPut(data)
  \/ AofGetStep \/ AofPutStep

AofSpec == AofInit /\ [][AofNext]_vars

\* NewDatastore over no bytes.
AofTasksInit == AofInit /\ aof.fresh

\* Two tasks on a store over no bytes, one calling Get and one calling Put.
AofTasksNext ==
  \/ AofOpen \/ AofGet \/ AofGetStep \/ AofPutStep
  \/ \E data \in Payloads : AofPut(data)

AofTasksSpec == AofTasksInit /\ [][AofTasksNext]_vars

\* ------------------------------------------------------ key-value Store
KvInit ==
  /\ Start
  /\ sup = [p \in Procs |-> "none"]
  /\ pc = [p \in Procs |-> "idle"]
  /\ aof = NoAof /\ wire = NoWire /\ calls = IdleCalls
  /\ kv = NewStore

\* Store.Updater(key) up to the return of tryLock: after its sleep, fileExists
\* on the lock file; ErrKeyLocked when it is there, else on to os.Create.
StoreUpdater(t) ==
  /\ kv.u[t].pc \in {"none", "closed"}
  /\ kv' = IF kv.lock
           THEN [kv EXCEPT !.u[t] = [pc |-> "none", op |-> "Updater", err |-> "ErrKeyLocked"]]
           ELSE [kv EXCEPT !.u[t].pc = "create"]
  /\ UNCHANGED <<procVars, sockVars, dsVars, leadVars, connVars, follVars, histVars, cntVars, watchVars>>
  /\ UNCHANGED <<dsOpen, handle, aof, wire, calls>>

\* Store.Updater goes on: os.Create(lock), which creates the file or truncates
\* the one that is there, and the Updater is returned.
UpdaterCreate(t) ==
  /\ kv.u[t].pc = "create"
  /\ kv' = [kv EXCEPT !.lock = TRUE, !.u[t] = [pc |-> "held", op |-> "Updater", err |-> ""]]
  /\ UNCHANGED <<procVars, sockVars, dsVars, leadVars, connVars, follVars, histVars, cntVars, watchVars>>
  /\ UNCHANGED <<dsOpen, handle, aof, wire, calls>>

\* Updater.Put(data): ErrNoLock when unlocked, else os.WriteFile.
UpdaterPut(t, data) ==
  /\ kv.u[t].pc \in {"held", "closed"}
  /\ kv' = IF kv.u[t].pc = "closed"
           THEN [kv EXCEPT !.u[t].op = "Put", !.u[t].err = "ErrNoLock"]
           ELSE [kv EXCEPT !.data = data, !.u[t].op = "Put", !.u[t].err = ""]
  /\ UNCHANGED <<procVars, sockVars, dsVars, leadVars, connVars, follVars, histVars, cntVars, watchVars>>
  /\ UNCHANGED <<dsOpen, handle, aof, wire, calls>>

\* Updater.Delete(): ErrNoLock when unlocked, else os.Remove of the data
\* file, which fails when there is none.
UpdaterDelete(t) ==
  /\ kv.u[t].pc \in {"held", "closed"}
  /\ kv' = IF kv.u[t].pc = "closed"
           THEN [kv EXCEPT !.u[t].op = "Delete", !.u[t].err = "ErrNoLock"]
           ELSE IF kv.data = Nil
           THEN [kv EXCEPT !.u[t].op = "Delete", !.u[t].err = "failed to delete data"]
           ELSE [kv EXCEPT !.data = Nil, !.u[t].op = "Delete", !.u[t].err = ""]
  /\ UNCHANGED <<procVars, sockVars, dsVars, leadVars, connVars, follVars, histVars, cntVars, watchVars>>
  /\ UNCHANGED <<dsOpen, handle, aof, wire, calls>>

\* Updater.Close(): os.Remove of the lock file; when that fails unlocked is
\* not set.
UpdaterClose(t) ==
  /\ kv.u[t].pc \in {"held", "closed"}
  /\ kv' = IF ~kv.lock
           THEN [kv EXCEPT !.u[t].op = "Close", !.u[t].err = "failed to remove lock"]
           ELSE [kv EXCEPT !.lock = FALSE, !.u[t] = [pc |-> "closed", op |-> "Close", err |-> ""]]
  /\ UNCHANGED <<procVars, sockVars, dsVars, leadVars, connVars, follVars, histVars, cntVars, watchVars>>
  /\ UNCHANGED <<dsOpen, handle, aof, wire, calls>>

\* Tasks (goroutines or processes) using the key, each with one Updater at a
\* time.
KvNext ==
  \E t \in Procs :
    \/ StoreUpdater(t) \/ UpdaterCreate(t) \/ UpdaterDelete(t) \/ UpdaterClose(t)
    \/ \E data \in 1..MaxOps : UpdaterPut(t, data)

KvSpec == KvInit /\ [][KvNext]_vars

\* ------------------------------------- FollowerNode.Write, called at once
CallsInit ==
  /\ Start
  /\ sup = [p \in Procs |-> "none"]
  /\ pc = [p \in Procs |-> "idle"]
  /\ aof = NoAof /\ wire = NoWire /\ kv = NewStore
  /\ calls = IdleCalls

\* FollowerNode.Write by task t, lines 132-148: RequestID is read from
\* n.nextRequestID and the request is written to the leader.
ConcurrentWrite(t) ==
  /\ calls.w[t].pc = "idle"
  /\ calls' = [calls EXCEPT !.w[t].pc = "reg", !.w[t].id = calls.nextRequestID,
                            !.toL = Append(@, [id |-> calls.nextRequestID, of |-> t])]
  /\ UNCHANGED <<procVars, sockVars, dsVars, leadVars, connVars, follVars, histVars, cntVars, watchVars>>
  /\ UNCHANGED <<dsOpen, handle, aof, wire, kv>>

\* Lines 150-152: the task's channel is stored under n.nextRequestID as it
\* is now, and n.nextRequestID advances.
ConcurrentRegister(t) ==
  /\ calls.w[t].pc = "reg"
  /\ calls' = [calls EXCEPT !.requests[calls.nextRequestID] = t,
                            !.nextRequestID = @ + 1, !.w[t].pc = "wait"]
  /\ UNCHANGED <<procVars, sockVars, dsVars, leadVars, connVars, follVars, histVars, cntVars, watchVars>>
  /\ UNCHANGED <<dsOpen, handle, aof, wire, kv>>

\* The leader's handleClientRequest on the next request: the response carries
\* the request's RequestID.
AnswerRequest ==
  /\ calls.toL # <<>>
  /\ calls' = [calls EXCEPT !.toL = Tail(@), !.toF = Append(@, Head(calls.toL))]
  /\ UNCHANGED <<procVars, sockVars, dsVars, leadVars, connVars, follVars, histVars, cntVars, watchVars>>
  /\ UNCHANGED <<dsOpen, handle, aof, wire, kv>>

\* The follower's handleMessage on the next response: sent on the channel
\* stored under its RequestID, which takes the task of that channel to be
\* receiving; dropped when no channel is stored.
DispatchResponse ==
  /\ calls.toF # <<>>
  /\ LET res == Head(calls.toF)
         t == calls.requests[res.id]
     IN IF t = NoProc
        THEN calls' = [calls EXCEPT !.toF = Tail(@)]
        ELSE /\ calls.w[t].pc = "wait"
             /\ calls' = [calls EXCEPT !.toF = Tail(@), !.w[t].pc = "done", !.w[t].res = res]
  /\ UNCHANGED <<procVars, sockVars, dsVars, leadVars, connVars, follVars, histVars, cntVars, watchVars>>
  /\ UNCHANGED <<dsOpen, handle, aof, wire, kv>>

CallsNext ==
  \/ \E t \in Procs : ConcurrentWrite(t) \/ ConcurrentRegister(t)
  \/ AnswerRequest \/ DispatchResponse

CallsSpec == CallsInit /\ [][CallsNext]_vars

\* ------------------------------------------------------------ histories
\* The positions in a frame sequence of the VersionUpdate of accepted write w,
\* and of the UpdateResponse to request id.
UpdatesFor(frames, w) == {k \in 1..Len(frames) : frames[k].t = "VU" /\ frames[k].w = w}
ResponsesFor(frames, id) == {k \in 1..Len(frames) : frames[k].t = "UR" /\ frames[k].id = id}

IsVersionUpdate(frame) == frame.t = "VU"
State(frame) == [v |-> frame.v, d |-> frame.d]
IsPrefix(s, t) == Len(s) <= Len(t) /\ \A k \in 1..Len(s) : s[k] = t[k]

\* The accepted writes of leader l, in Put order.
IsWriteOf(l, e) == e.l = l
Accepted(l) == SelectSeq(wlog, LAMBDA e : IsWriteOf(l, e))

\* Every (version, data) the datastore of leader l has held.
Held(l) == {EmptyStore} \cup {State(wlog[i]) : i \in {k \in 1..Len(wlog) : wlog[k].l = l}}

\* Nothing is in flight and no goroutine has a step to take: every constructor
\* has returned, every frame is handled, and every Write has returned or waits
\* on its response slot.
Settled ==
  /\ \A p \in Procs : pc[p] = "idle" /\ backlog[p] = <<>> /\ acc[p] = NoProc
  /\ \A p \in Procs : toL[p] = <<>> /\ toF[p] = <<>>
  /\ \A p \in Procs : ser[p].pc = "idle" /\ lw[p].pc \in {"idle", "done"}
  /\ \A p \in Procs : fw[p].pc \in {"idle", "done", "wait"}

\* ------------------------------------------------------------------ claims
\* The processes holding a leader node that is alive and bound to the endpoint.
LiveLeaders == {p \in Procs : alive[p] /\ node[p] = "leader" /\ listening[p]}

\* C1: with every process running a supervisor over the same rendezvous path
\* (existence check, bind, dial, removal of the entry on ErrLeaderClosed,
\* retry), at most one process holds a live leader node at any time.
C1_AtMostOneLiveLeader == Cardinality(LiveLeaders) <= 1

\* C2: the leader runs one write at a time (a local Write and a request in the
\* serializer are never both between their version test and their return),
\* and no leader accepts two writes with the same expected version.
C2_OneWriteAtATime ==
  /\ \A l \in Procs : ~(lw[l].pc \in {"put", "bcast"} /\ ser[l].pc \in {"put", "bcast"})
  /\ \A i, j \in 1..Len(wlog) :
       (wlog[i].l = wlog[j].l /\ wlog[i].exp = wlog[j].exp) => i = j

\* C3: the k-th write a leader accepts stores version k (the initial version
\* is 0) on top of version k - 1, and the datastore's version is the number
\* of writes accepted so far.
C3_VersionCountsAcceptedWrites ==
  \A l \in Procs :
    /\ DsGet(lds[l]).v = Len(Accepted(l))
    /\ \A k \in 1..Len(Accepted(l)) : Accepted(l)[k].v = k /\ Accepted(l)[k].exp = k - 1

\* The variables a write can reach: the datastores, the frames in flight and
\* written, the accepted writes.
effects == <<lds, fds, toL, toF, sent, wlog>>

\* A step in which a caller enters LeaderNode.Write / FollowerNode.Write.
CallsLeaderWrite(l) == nOps' = nOps + 1 /\ lw'[l] # lw[l]
CallsFollowerWrite(f) == nOps' = nOps + 1 /\ fw'[f] # fw[f]
\* A step in which the serializer of l takes a request from connection f, and
\* one in which it answers the request it holds.
TakesRequest(l, f) == ser[l].pc = "idle" /\ ser'[l].pc # "idle" /\ ser'[l].client = f
AnswersRequest(l) == ser[l].pc = "ret" /\ ser'[l].pc = "idle"

MismatchStep ==
  /\ \A l \in Procs :
       (CallsLeaderWrite(l) /\ lw'[l].v # DsGet(lds[l]).v) =>
         /\ lw'[l].pc = "done" /\ lw'[l].err = "ErrVersionMismatch"
         /\ UNCHANGED effects
  /\ \A f \in Procs :
       (CallsFollowerWrite(f) /\ fw'[f].v # DsGet(fds[f]).v) =>
         /\ fw'[f].pc = "done" /\ fw'[f].err = "ErrVersionMismatch"
         /\ UNCHANGED effects
  /\ \A l, f \in Procs :
       (TakesRequest(l, f) /\ Head(toL[f]).v # DsGet(lds[l]).v) =>
         /\ ser'[l].pc = "ret" /\ ser'[l].err = "ErrVersionMismatch"
         /\ ser'[l].id = Head(toL[f]).id /\ ser'[l].cur = DsGet(lds[l]).v
         /\ UNCHANGED <<lds, fds, toF, sent, wlog>>
  /\ \A l \in Procs :
       (AnswersRequest(l) /\ ser[l].err = "ErrVersionMismatch") =>
         /\ sent' = [sent EXCEPT ![ser[l].client] =
                       Append(@, UpdateResponse(ser[l].id, ResponseErrorMismatchedVersion,
                                                ser[l].cur, Nil))]
         /\ \A g \in Procs \ {ser[l].client} : toF'[g] = toF[g]
         /\ UNCHANGED <<lds, fds, toL, wlog>>

\* C4: a write whose expected version differs from the node's current version
\* returns ErrVersionMismatch in the step that tests it, changing no
\* datastore and writing no frame: LeaderNode.Write, FollowerNode.Write (no
\* request is sent), and a request taken by the serializer, whose only frame
\* is the UpdateResponse to the requester, with the request's id, error 1 and
\* the version the leader read in the test.
C4_MismatchRejected == [][MismatchStep]_vars

\* C4 witness: a request that passed the follower's local test was rejected
\* by the leader and answered with error 1.
C4_RemoteMismatchAnswered ==
  \E f \in Procs :
    /\ fw[f].pc = "done" /\ fw[f].err = "ErrVersionMismatch" /\ fw[f].v = fw[f].cur
    /\ \E k \in ResponsesFor(applied[f], fw[f].id) :
         applied[f][k].err = ResponseErrorMismatchedVersion

SeenOnce(f, i) ==
  IF f = wlog[i].origin
  THEN Cardinality(ResponsesFor(applied[f], wlog[i].id)) = 1
  ELSE Cardinality(UpdatesFor(applied[f], i)) = 1

\* C6: with no connection lost, once nothing is in flight any more every
\* follower that was connected when a write was accepted has seen that write
\* exactly once.
C6_EveryConnectedFollowerSeesUpdate ==
  Settled => \A i \in 1..Len(wlog) : \A f \in wlog[i].up : SeenOnce(f, i)

SeenVersions(f) ==
  LET updates == SelectSeq(applied[f], IsVersionUpdate)
  IN [k \in 1..Len(updates) |-> updates[k].v]

\* C8: with no connection lost, a follower handles the frames of its
\* connection in the order the leader wrote them, the versions it sees never
\* go down, and once nothing is in flight its (version, data) is the leader's.
C8_InOrderAndConverges ==
  /\ \A f \in Procs : IsPrefix(applied[f], sent[f])
  /\ \A f \in Procs : \A j, k \in 1..Len(SeenVersions(f)) :
       j < k => SeenVersions(f)[j] <= SeenVersions(f)[k]
  /\ Settled => \A f \in Procs : ready[f] => DsGet(fds[f]) = DsGet(lds[peer[f]])

\* The states follower f has been handed, bootstrap first.
Updates(f) ==
  LET updates == SelectSeq(applied[f], IsVersionUpdate)
  IN [k \in 1..Len(updates) |-> State(updates[k])]

C10_SoloFollowerWriteSucceeds ==
  \A f \in Procs :
    (Settled /\ nOps = 1 /\ fw[f].pc # "idle" /\ fw[f].v = fw[f].cur) =>
      /\ fw[f].pc = "done" /\ fw[f].err = ""
      /\ DsGet(lds[peer[f]]) = [v |-> fw[f].v + 1, d |-> fw[f].d]
      /\ DsGet(fds[f]) = [v |-> fw[f].v + 1, d |-> fw[f].d]
      /\ \A g \in Procs :
           (boot[g].got /\ boot[g].n = 1) => boot[g].v = fw[f].v + 1 /\ boot[g].d = fw[f].d

\* The UpdateResponse the Write call of f was handed: the frame its reader
\* handled under the call's request id.
ResponseOf(f) == applied[f][CHOOSE k \in ResponsesFor(applied[f], fw[f].id) : TRUE]
Answered(f) == fw[f].id # 0 /\ ResponsesFor(applied[f], fw[f].id) # {}

FinishStep ==
  \A f \in Procs :
    (fw[f].pc = "gotres" /\ fw'[f].pc = "done") =>
      LET res == ResponseOf(f)
      IN /\ res.err = 0 =>
              /\ fw'[f].err = ""
              /\ DsGet(fds'[f]) = [v |-> res.v, d |-> fw[f].d]
         /\ res.err = 1 => fw'[f].err = "ErrVersionMismatch"
         /\ res.err = 2 => fw'[f].err = "ErrLeaderFailedToWrite"
         /\ res.err \notin {0, 1, 2} => fw'[f].err = "unknown error"
         /\ res.err # 0 => UNCHANGED fds
         /\ \A g \in Procs \ {f} : fds'[g] = fds[g]

\* C11: FollowerNode.Write returns by the code of the UpdateResponse it was
\* handed: 0 puts (response version, the call's data) into the follower's
\* datastore and succeeds; 1 returns ErrVersionMismatch, 2 returns
\* ErrLeaderFailedToWrite, any other code a generic error, and with a code
\* other than 0 the follower's datastore is left as it was.
C11_ResponseCodeTranslated == [][FinishStep]_vars

\* C11 witness: a Write was answered with a code outside 0..2 and returned
\* the generic error, the datastore still holding what an earlier Write,
\* answered with code 0, had put.
C11_UnknownCodeAfterSuccess ==
  \E f \in Procs :
    /\ fw[f].pc = "done" /\ Answered(f) /\ ResponseOf(f).err \notin {0, 1, 2}
    /\ fw[f].err = "unknown error"
    /\ DsGet(fds[f]).d \in Data /\ DsGet(fds[f]).d # fw[f].d

PutFailStep ==
  /\ \A l \in Procs :
       (ser[l].pc = "put" /\ ser'[l].pc = "ret") =>
         /\ ser'[l].err \notin {"", "ErrVersionMismatch"}
         /\ ser'[l].id = ser[l].id /\ ser'[l].cur = ser[l].v
         /\ UNCHANGED <<lds, fds, toF, sent, wlog>>
  /\ \A l \in Procs :
       (lw[l].pc = "put" /\ lw'[l].pc = "done") =>
         /\ lw'[l].err \notin {"", "ErrVersionMismatch"}
         /\ UNCHANGED effects
  /\ \A l \in Procs :
       (AnswersRequest(l) /\ ser[l].err \notin {"", "ErrVersionMismatch"}) =>
         /\ sent' = [sent EXCEPT ![ser[l].client] =
                       Append(@, UpdateResponse(ser[l].id, ResponseErrorWriteFailed,
                                                ser[l].v, Nil))]
         /\ \A g \in Procs \ {ser[l].client} : toF'[g] = toF[g]
         /\ UNCHANGED <<lds, fds, toL, wlog>>

\* C12: when the leader's datastore Put fails the write is rejected: the
\* failing step leaves every datastore as it was, accepts no write and writes
\* no frame; LeaderNode.Write returns an error; a request in the serializer
\* is answered with one UpdateResponse to the requester carrying the
\* request's id, error 2 and the version the write was tested against, and
\* nobody is written a VersionUpdate.
C12_PutFailureRejected == [][PutFailStep]_vars

\* C12 witness: a follower's Write came back with ErrLeaderFailedToWrite from
\* a response with error 2, a local Write failed too, and the leader's
\* datastore is still empty.
C12_BothWritesFailed ==
  \E f, l \in Procs :
    /\ fw[f].pc = "done" /\ fw[f].err = "ErrLeaderFailedToWrite"
    /\ Answered(f) /\ ResponseOf(f).err = ResponseErrorWriteFailed
    /\ lw[l].pc = "done" /\ lw[l].err = "failed to put data"
    /\ peer[f] = l /\ DsGet(lds[l]) = EmptyStore /\ wlog = <<>>

\* C13: the requests of the clients go through one serializer: the responses
\* on a connection follow the order of its requests (their ids go up), the
\* writes accepted for clients appear in the leader's history in the order
\* the serializer took them, and that history is one sequence of consecutive
\* versions: a client's write that is the k-th the leader accepts stores
\* version k on top of version k - 1.
C13_SerializedConsecutiveVersions ==
  /\ \A f \in Procs : \A j, k \in 1..Len(sent[f]) :
       (j < k /\ sent[f][j].t = "UR" /\ sent[f][k].t = "UR") => sent[f][j].id < sent[f][k].id
  /\ \A l \in Procs : \A k \in 1..Len(Accepted(l)) :
       Accepted(l)[k].origin # NoProc =>
         /\ Accepted(l)[k].v = k /\ Accepted(l)[k].exp = k - 1
         /\ \A j \in 1..(k - 1) : Accepted(l)[j].v < Accepted(l)[k].v

\* C14: when the supervisor of a leader is closed while a follower's
\* supervisor is open on the same endpoint, connected to it, another
\* supervisor eventually holds a leader node bound to the endpoint.
C14_FailoverAfterClose ==
  \A l, f \in Procs :
    (/\ node[l] = "leader" /\ supClosed[l]
     /\ sup[f] = "open" /\ node[f] = "follower" /\ peer[f] = l /\ ~supClosed[f])
      ~> (\E p \in Procs \ {l} : alive[p] /\ node[p] = "leader" /\ listening[p])

\* No other process is inside initNode.
Lone(p) == \A q \in Procs \ {p} : pc[q] = "idle"

\* C15: an attempt tries NewLeaderNode first; NewFollowerNode is entered only
\* from the existence test finding the entry (ErrLeaderAlreadyExists), and
\* the bind only from the test finding none; the removal is entered only from
\* a dial that found the entry with nobody listening (ErrLeaderClosed), it
\* deletes the entry, counts the attempt and starts the next one with
\* NewLeaderNode; and a supervisor that has reached the removal, alone in
\* initNode, comes to hold a leader node bound to the endpoint, unless it is
\* out of attempts.
C15_LeaderFirstThenFollower ==
  /\ [][\A p \in Procs :
          /\ (pc'[p] = "nf_dial" /\ pc[p] # "nf_dial") => (pc[p] = "nl_check" /\ sockFile # NoProc)
          /\ (pc'[p] = "nl_bind" /\ pc[p] # "nl_bind") => (pc[p] = "nl_check" /\ sockFile = NoProc)
          /\ (pc'[p] = "nf_wait" /\ pc[p] # "nf_wait") => pc[p] = "nf_dial"
          /\ (pc'[p] = "remove" /\ pc[p] # "remove") =>
                (pc[p] = "nf_dial" /\ sockFile # NoProc /\ ~listening[sockFile])
          /\ (pc[p] = "remove" /\ pc'[p] # "remove") =>
                /\ sockFile' = NoProc /\ attempts'[p] = attempts[p] + 1
                /\ pc'[p] = "nl_check" \/ attempts'[p] = MaxAttempts]_vars
  /\ \A p \in Procs :
       (pc[p] = "remove" /\ Lone(p)) ~>
         \/ alive[p] /\ node[p] = "leader" /\ listening[p] /\ sockFile = p
         \/ ~Lone(p)
         \/ sup[p] \in {"failed", "errored"}

\* C15 witness: the leader's process was killed, and its follower, on the
\* attempt after the one that removed the stale entry, bound the endpoint,
\* no third supervisor having been opened.
C15_LeaderAfterStaleEntry ==
  \E p, q \in Procs :
    /\ ~alive[q] /\ node[q] = "leader" /\ peer[p] = q
    /\ alive[p] /\ node[p] = "leader" /\ listening[p] /\ sockFile = p
    /\ sup[p] = "open" /\ attempts[p] = 1
    /\ \A o \in Procs \ {p, q} : sup[o] = "new"

\* C16: initNodeWithRetry makes at most 10 attempts: the counter never passes
\* 10 and an attempt runs only below 10; a successful attempt ends the loop
\* with the counter as it was (Open, or the reset, is over); a failed attempt
\* counts one, and the tenth failure ends the loop with the error, which Open
\* returns (the supervisor is "failed") and a reset sends on errorCh (the
\* supervisor is "errored"); no attempt is made after either.
C16_AtMostTenAttempts ==
  /\ [](\A p \in Procs :
          /\ attempts[p] <= MaxAttempts
          /\ pc[p] # "idle" => (attempts[p] < MaxAttempts /\ sup[p] \in {"opening", "resetting"})
          /\ sup[p] \in {"failed", "errored"} => (attempts[p] = MaxAttempts /\ pc[p] = "idle"))
  /\ [][\A p \in Procs :
          /\ (sup[p] \in {"opening", "resetting"} /\ sup'[p] = "open") =>
                (node'[p] \in {"leader", "follower"} /\ pc'[p] = "idle" /\ attempts'[p] = attempts[p])
          /\ (sup[p] \in {"opening", "resetting"} /\ attempts'[p] # attempts[p]) =>
                /\ attempts'[p] = attempts[p] + 1 /\ node'[p] = node[p]
                /\ IF attempts'[p] < MaxAttempts
                   THEN sup'[p] = sup[p] /\ pc'[p] = "nl_check"
                   ELSE /\ pc'[p] = "idle"
                        /\ sup'[p] = IF sup[p] = "opening" THEN "failed" ELSE "errored"
          /\ sup[p] \in {"failed", "errored"} =>
                (sup'[p] = sup[p] /\ pc'[p] = pc[p] /\ attempts'[p] = attempts[p])]_vars

\* C16 witness: a follower whose leader was lost ran a reset that failed ten
\* times and ended with the error for errorCh.
C16_ResetGaveUp ==
  \E p \in Procs :
    sup[p] = "errored" /\ attempts[p] = MaxAttempts /\ node[p] = "follower" /\ pc[p] = "idle"

\* C18: a leader node that has been closed holds no open connection; the
\* reader of each of its connections exits and takes the client out of the
\* map, and the reader of each follower connected to it exits (its close
\* channel fires); the reader of a follower node that closed its connection
\* exits.
C18_CloseClosesConnections ==
  /\ [](\A l, f \in Procs :
          (alive[l] /\ node[l] = "leader" /\ ~listening[l] /\ peer[f] = l) => ~connL[f])
  /\ \A l, f \in Procs :
       (alive[l] /\ node[l] = "leader" /\ ~listening[l] /\ peer[f] = l /\ lrd[f] = "run")
         ~> (lrd[f] = "exited" /\ f \notin clients[l])
  /\ \A l, f \in Procs :
       (alive[l] /\ node[l] = "leader" /\ ~listening[l] /\ peer[f] = l /\ frd[f] = "run")
         ~> (frd[f] # "run")
  /\ \A f \in Procs : (alive[f] /\ frd[f] = "run" /\ ~connF[f]) ~> (frd[f] # "run")

\* C19: a follower Write that waits for its UpdateResponse while the
\* connection is down (closed by the peer or by the follower node itself)
\* eventually returns, with an error.
C19_WaitingWriteReturns ==
  \A f \in Procs :
    (fw[f].pc \in {"reg", "wait"} /\ ~ConnUp(f)) ~> (fw[f].pc = "done" /\ fw[f].err # "")

\* C20: a NewFollowerNode call that has dialled eventually returns, with the
\* node once the bootstrap is put or with an error.
C20_ConstructorReturns ==
  \A f \in Procs : (pc[f] = "nf_wait") ~> (pc[f] # "nf_wait")

\* C17: once initNode has returned (initial or reset, leader or follower) and
\* no Watch call is in progress, every channel State.Watch has handed out is
\* registered with the node the supervisor holds.
C17_WatchersStayRegistered ==
  \A p \in Procs :
    (sup[p] = "open" /\ node[p] # "none" /\ watching[p].call = "idle") =>
      watchers[p] \subseteq watchChannels[p]

\* C21: NewLeaderNode on a path whose entry exists returns
\* ErrLeaderAlreadyExists (initNode goes on to NewFollowerNode, the attempt
\* is not counted as failed) and no node: the step opens no datastore, binds
\* no listener, starts no accept loop or serializer, and leaves the entry and
\* every other process's state as they were.
C21_ExistingEntryRefused ==
  [][\A p \in Procs :
       (pc[p] = "nl_check" /\ sockFile # NoProc /\ pc'[p] # "nl_check") =>
         /\ pc'[p] = "nf_dial" /\ node'[p] = node[p] /\ attempts'[p] = attempts[p]
         /\ UNCHANGED <<dsOpen, sockVars, dsVars, leadVars, connVars>>]_vars

\* C21 witness: a supervisor that has never held a node found the entry of a
\* live leader on its first attempt: it is about to dial, its leader
\* datastore unopened.
C21_RefusedWithLeaderPresent ==
  \E p, q \in Procs :
    /\ pc[p] = "nf_dial" /\ attempts[p] = 0 /\ node[p] = "none" /\ ~dsOpen[p]
    /\ sockFile = q /\ node[q] = "leader" /\ listening[q] /\ alive[q]

\* C22: of the processes that pass the existence test together one binds;
\* for the others the failed bind counts as ErrLeaderAlreadyExists: the
\* attempt goes on to NewFollowerNode (it is not counted as failed) and the
\* supervisor attaches to the winner.
C22_BindLoserAttaches ==
  /\ [](Cardinality({p \in Procs : alive[p] /\ listening[p]}) <= 1)
  /\ [][\A p \in Procs :
          (pc[p] = "nl_bind" /\ sockFile # NoProc /\ pc'[p] # "nl_bind") =>
            (pc'[p] = "nf_dial" /\ attempts'[p] = attempts[p])]_vars

\* C23: the step in which NewLeaderNode succeeds leaves the endpoint entry in
\* place, the listener and the datastore open; the step in which a live
\* leader node is closed closes the datastore and the listener and removes the
\* entry, and no closed leader node is left with its datastore open; a
\* NewLeaderNode that finds no entry does not return ErrLeaderAlreadyExists:
\* it goes on to bind.
C23_LeaderLifecycle ==
  /\ [][\A p \in Procs :
          /\ (~listening[p] /\ listening'[p]) =>
                (sockFile' = p /\ node'[p] = "leader" /\ dsOpen'[p])
          /\ (listening[p] /\ ~listening'[p] /\ alive'[p]) =>
                (~dsOpen'[p] /\ sockFile' = NoProc)
          /\ (pc[p] = "nl_check" /\ sockFile = NoProc /\ pc'[p] # "nl_check") =>
                pc'[p] = "nl_bind"]_vars
  /\ [](\A p \in Procs :
          (alive[p] /\ node[p] = "leader" /\ ~listening[p]) => ~dsOpen[p])

\* C23 witness: a leader node was closed and another process, finding no
\* entry, holds the next leader node on the same path.
C23_LeaderAfterClosedLeader ==
  \E p, q \in Procs :
    /\ alive[q] /\ node[q] = "leader" /\ supClosed[q] /\ ~listening[q] /\ ~dsOpen[q]
    /\ alive[p] /\ node[p] = "leader" /\ listening[p] /\ sockFile = p /\ attempts[p] = 0

\* C24: the end of a follower's connection starts one reset (the goroutine
\* waiting on closeCh ends with it), and none once State.Close has been
\* called: a closed supervisor starts no reset, acquires no node, binds no
\* listener and dials no connection.
C24_NoResetAfterClose ==
  [][\A p \in Procs :
       /\ (sup'[p] = "resetting" /\ sup[p] # "resetting") =>
             (sup[p] = "open" /\ frd[p] = "exited" /\ frd'[p] = "gone" /\ ~supClosed[p])
       /\ supClosed[p] =>
             /\ sup'[p] = "resetting" => sup[p] = "resetting"
             /\ node'[p] = node[p]
             /\ listening'[p] => listening[p]
             /\ pc'[p] = "nf_wait" => pc[p] = "nf_wait"]_vars

\* C25: Version.Update(data) is one Write call of the handle's writer, with
\* the version the handle was made with (State.Current: the node's version at
\* that moment; the handle never changes) and the new data, and it returns
\* what that Write returns: when the node's version is no longer the
\* handle's, ErrVersionMismatch, with no datastore changed and no frame
\* written.
C25_UpdateWritesHandleVersion ==
  [][\A p \in Procs :
       /\ handle'[p] # handle[p] =>
            (handle'[p] = NodeVersion(p) /\ UNCHANGED <<nOps, lw, fw, effects>>)
       /\ (CallsLeaderWrite(p) \/ CallsFollowerWrite(p)) =>
            LET w == IF CallsLeaderWrite(p) THEN lw'[p] ELSE fw'[p]
            IN /\ nOps' = nOps + 1 /\ handle[p] # NoVersion /\ handle'[p] = handle[p]
               /\ w.v = handle[p] /\ w.d = nOps'
               /\ \A q \in Procs \ {p} : lw'[q] = lw[q] /\ fw'[q] = fw[q]
               /\ IF CallsLeaderWrite(p) THEN fw'[p] = fw[p] ELSE lw'[p] = lw[p]
               /\ handle[p] # NodeVersion(p) =>
                    (w.pc = "done" /\ w.err = "ErrVersionMismatch" /\ UNCHANGED effects)]_vars

\* C25 witness: a follower's Update went through with the version of its
\* handle, and the leader's Update, its handle obtained before that write,
\* came back with ErrVersionMismatch.
C25_StaleHandleRejected ==
  \E l, f \in Procs :
    /\ fw[f].pc = "done" /\ fw[f].err = "" /\ fw[f].v = handle[f] /\ peer[f] = l
    /\ lw[l].pc = "done" /\ lw[l].err = "ErrVersionMismatch" /\ lw[l].v = handle[l]
    /\ handle[l] < DsGet(lds[l]).v

\* C26: a message written as PrependRequestLength(Encode(m)) and read back
\* by the frame reader decodes, with the Decode of its kind, to a message
\* equal to m in every field; the Decode of another kind rejects the body
\* with an error; and a frame the stream ended in is rejected (skipped by the
\* reader, or an error of Decode), never decoded.
C26_CodecRoundTrip ==
  /\ wire.at = "decoded" /\ ~wire.cut =>
       IF wire.as = wire.m.kind
       THEN wire.res = "ok" /\ wire.out = wire.m
       ELSE wire.res = "error"
  /\ wire.cut => wire.at \in {"sent", "dropped"} \/ (wire.at = "decoded" /\ wire.res = "error")

\* C27: a Get on the open store, after at least one Put returned nil, returns
\* the version and the data of the last such Put, also after Close and Open
\* and after a restart; a Put that returns nil has moved Offset to the
\* NextOffset it found and NextOffset on by the length of its data, has left
\* every byte of the data region before the old NextOffset as it was, and
\* Offset <= NextOffset holds from then on, as it does once Open has found
\* the file valid.
C27_GetReturnsLastPut ==
  /\ [](aof.op = "Get" /\ aof.nput >= 1 /\ aof.err # "ErrFileNotOpen" =>
          aof.err = "" /\ aof.v = aof.last.v /\ aof.d = aof.last.d)
  /\ [](aof.valid \/ aof.nput >= 1 => aof.offset <= aof.nextOffset)
  /\ [][aof'.nput = aof.nput + 1 =>
          /\ aof'.offset = aof.put.next
          /\ aof'.nextOffset = aof.put.next + Len(aof.put.d)
          /\ \A i \in 1..Len(aof.put.file) :
               i > HeaderSize /\ i <= HeaderSize + aof.put.next => aof'.file[i] = aof.put.file[i]]_vars

\* C27 witness: a second Put, of data that is not empty, has returned and a
\* Get returned its pair.
C27_SecondPutReadBack ==
  /\ aof.op = "Get" /\ aof.err = "" /\ aof.nput = 2
  /\ aof.offset > 0 /\ aof.d # <<>> /\ aof.d = aof.last.d /\ aof.v = 2

\* C28: an Open that has returned returned nil for a file without bytes,
\* and for a file with bytes one of the errors its header calls for
\* (ErrUnexpectedFileVersion for a file version other than 1,
\* ErrNextOffsetOutOfRange for Offset > NextOffset, ErrOffsetOutOfRange for
\* Offset > size), nil when it calls for none; a Get on a store opened from no
\* bytes and never put to returns version 0 and no data; Get and Put on a
\* store that is not open return ErrFileNotOpen.
C28_OpenValidates ==
  LET file == aof.file
      offset == ReadHeader(file, OffsetHeaderPos, OffsetHeaderFieldSize)
      nextOffset == ReadHeader(file, NextOffsetHeaderPos, NextOffsetHeaderFieldSize)
      called == IF file = <<>> THEN {}
                ELSE (IF ReadHeader(file, FileVersionHeaderPos, FileVersionHeaderFieldSize) # FileVersion
                      THEN {"ErrUnexpectedFileVersion"} ELSE {})
                     \cup (IF offset > nextOffset THEN {"ErrNextOffsetOutOfRange"} ELSE {})
                     \cup (IF offset > Len(file) THEN {"ErrOffsetOutOfRange"} ELSE {})
  IN /\ aof.op = "Open" /\ aof.put.pc = "idle" =>
          IF called = {} THEN aof.err = "" ELSE aof.err \in called
     /\ aof.op = "Get" /\ aof.fresh /\ aof.nput = 0 /\ aof.open =>
          aof.err = "" /\ aof.v = 0 /\ aof.d = <<>>
     /\ aof.op \in {"Get", "Put"} /\ ~aof.open => aof.err = "ErrFileNotOpen"

\* C29: once a process was killed in a Put on a valid file, after the Put's
\* data was written and before its header was, an Open by a later process
\* returns nil, and its Get returns the pair of the last Put that returned
\* nil, or version 0 and no data when the store started from no bytes and no
\* Put returned.
C29_TornPutTolerated ==
  aof.torn /\ aof.put.pc = "idle" =>
    /\ aof.op = "Open" => aof.err = ""
    /\ aof.op = "Get" /\ aof.open /\ (aof.fresh \/ aof.nput >= 1) =>
         aof.err = "" /\ aof.v = aof.last.v /\ aof.d = aof.last.d

\* C30: on a store opened from no bytes and used by a task calling Get and a
\* task calling Put, a Get that has returned returned no error and a whole
\* pair: the pair of the last Put that had returned when the Get was called,
\* or the pair of a Put that ran while the Get did.
C30_ConcurrentGetWholePair ==
  aof.fresh /\ aof.op = "Get" /\ aof.err # "ErrFileNotOpen" =>
    aof.err = "" /\ [v |-> aof.v, d |-> aof.d] \in aof.get.cand

\* C31: at most one task holds an Updater of the key that is not closed;
\* Store.Updater called while such an Updater is held returns ErrKeyLocked
\* and no Updater; Updater.Close that returns nil leaves the Updater closed
\* and the lock free for the next caller; Put and Delete of a closed Updater
\* return ErrNoLock and leave the data as it is.
C31_OneUpdaterPerKey ==
  /\ [](Cardinality({t \in Procs : kv.u[t].pc = "held"}) <= 1)
  /\ [][\A t \in Procs :
          /\ (kv.u[t].pc \in {"none", "closed"} /\ kv'.u[t] # kv.u[t]
              /\ \E o \in Procs : kv.u[o].pc = "held") =>
               kv'.u[t] = [pc |-> "none", op |-> "Updater", err |-> "ErrKeyLocked"]
          /\ (kv.u[t].pc = "held" /\ kv'.u[t].op = "Close" /\ kv'.u[t] # kv.u[t]) =>
               kv'.u[t].pc = "closed" /\ ~kv'.lock
          /\ (kv.u[t].pc = "closed" /\ kv'.u[t].pc = "closed" /\ kv'.u[t] # kv.u[t]
              /\ kv'.u[t].op \in {"Put", "Delete"}) =>
               kv'.u[t].err = "ErrNoLock" /\ kv'.data = kv.data]_vars

\* C32: an UpdateResponse the follower's reader handles finds the slot of its
\* request id registered (every id a response carries was issued by a Write),
\* and a Write whose request the leader has answered returns, the connection
\* staying up.
C32_ResponseReachesWriter ==
  /\ [][\A f \in Procs :
          (toF[f] # <<>> /\ Head(toF[f]).t = "UR" /\ Len(applied'[f]) = Len(applied[f]) + 1) =>
            Head(toF[f]).id \in requests[f]]_vars
  /\ \A f \in Procs :
       (fw[f].pc \in {"reg", "wait"} /\ ResponsesFor(sent[f], fw[f].id) # {}) ~> fw[f].pc = "done"

\* C33: the request ids the Write calls of one follower have taken are
\* 1, 2, ... without gap, no two calls have the same one, every response
\* carries the id of the request it answers, and a Write that received a
\* response received the one to its own request.
C33_OwnRequestIdAndResponse ==
  LET called == {t \in Procs : calls.w[t].pc # "idle"}
  IN /\ {calls.w[t].id : t \in called} = 1..Cardinality(called)
     /\ \A i \in 1..Len(calls.toF) :
          \E t \in called : calls.toF[i] = [id |-> calls.w[t].id, of |-> t]
     /\ \A t \in called :
          calls.w[t].pc = "done" => calls.w[t].res = [id |-> calls.w[t].id, of |-> t]

\* C34: when a follower's Write puts the state of its own accepted write,
\* after the response was handed over, the version of the follower's
\* datastore does not go down: no newer state the reader has put meanwhile is
\* overwritten by the older one.
C34_FollowerVersionNeverDecreases ==
  [][\A f \in Procs :
       (fw[f].pc = "gotres" /\ fw'[f].pc = "done") =>
         DsGet(fds'[f]).v >= DsGet(fds[f]).v]_vars

\* C35: once nothing is in flight, a follower whose connection is up and
\* registered has been sent every write its leader accepted with a version
\* above the one of the connection's bootstrap frame (as a VersionUpdate or,
\* for its own write, as the response).
C35_NoWriteLostWhileConnecting ==
  Settled =>
    \A f \in Procs :
      (sent[f] # <<>> /\ ConnUp(f) /\ f \in clients[peer[f]]) =>
        \A i \in 1..Len(wlog) :
          (wlog[i].l = peer[f] /\ wlog[i].v > sent[f][1].v) =>
            (UpdatesFor(sent[f], i) # {} \/ wlog[i].origin = f)

\* C36: the entry a supervisor removes after a dial answered with
\* ErrLeaderClosed is not the socket of a live leader bound to the path.
C36_RemovesOnlyDeadLeaderEntry ==
  [][\A p \in Procs :
       (pc[p] = "remove" /\ pc'[p] # "remove" /\ sockFile # NoProc /\ sockFile' = NoProc) =>
         sockFile \notin LiveLeaders]_vars

\* C37: on a leader node whose Close has returned, no Write call and no
\* UpdateRequest of a connected follower gets past the version test to the
\* Put, so its datastore does not change and no request is answered with
\* success.
C37_ClosedLeaderAcceptsNoWrite ==
  [][\A l \in Procs :
       (alive[l] /\ node[l] = "leader" /\ ~listening[l]) =>
         /\ lw[l].pc # "put" => lw'[l].pc # "put"
         /\ ser[l].pc # "put" => ser'[l].pc # "put"]_vars

\* C38: when the serializer comes to answer a request whose client is no
\* longer in the client map, the leader's process goes on running and the
\* serializer is free for the next request, the datastore left as it is.
C38_RequestOfGoneClientHandled ==
  [][\A l \in Procs :
       (alive[l] /\ ser[l].pc = "ret" /\ ser[l].client \notin clients[l]
        /\ (ser'[l] # ser[l] \/ (~alive'[l] /\ nFaults' = nFaults))) =>
         alive'[l] /\ ser'[l].pc = "idle" /\ lds'[l] = lds[l]]_vars

\* C39: a Version handed to the watchers of a node carries a (version,
\* data) pair the leader's datastore has held, and the leader hands one over
\* for a request only when the request's write was accepted.
C39_OnlyAcceptedChangesNotified ==
  [][\A p \in Procs :
       Len(notified'[p]) = Len(notified[p]) + 1 =>
         /\ notified'[p][Len(notified'[p])] \in Held(IF node[p] = "leader" THEN p ELSE peer[p])
         /\ node[p] = "leader" => ser[p].err = ""]_vars

\* C40: once Open has returned ErrUnexpectedFileVersion,
\* ErrNextOffsetOutOfRange or ErrOffsetOutOfRange the store is not open; the
\* next Get or Put returns ErrFileNotOpen at once, and the next Open on the
\* file as it was returns the same error again.
C40_RejectedOpenLeavesClosed ==
  [][(/\ aof.op = "Open"
      /\ aof.err \in {"ErrUnexpectedFileVersion", "ErrNextOffsetOutOfRange", "ErrOffsetOutOfRange"}) =>
       /\ ~aof.open
       /\ (aof' # aof /\ aof'.op = "Open" /\ aof'.file = aof.file) => aof'.err = aof.err
       /\ (aof'.get # aof.get \/ aof'.put # aof.put \/ aof'.op \in {"Get", "Put"}) =>
            /\ aof'.op \in {"Get", "Put"} /\ aof'.err = "ErrFileNotOpen"
            /\ aof'.get.pc = "idle" /\ aof'.put.pc = "idle"]_vars

====
